---- MODULE Spec2Model ----
(***************************************************************************)
(* FraudShield: the decisioner (bus consumer, rule and decision engine)    *)
(* and the evaluator (risk scoring, velocity counters).                    *)
(*                                                                         *)
(* Numbers.  JavaScript numbers are modelled as fixed-point integers with  *)
(* two decimals: the model integer n stands for the number n/100.  So the  *)
(* literal 0.9 of the source is 90, the literal 100 of the source is       *)
(* 10000, and comparisons and sums of the source are the same comparisons  *)
(* and sums on the representations.                                        *)
(***************************************************************************)
EXTENDS Integers, Sequences, FiniteSets, TLC

\* ------------------------------------------------------------------------
\* Bounds of the model
\* ------------------------------------------------------------------------
MaxRules == 2
MaxPriority == 2
MaxTopic == 2        \* messages published to risk_scores
MaxUuid == 3         \* decision ids drawn from uuidv4()
MaxEvalRules == 2    \* rules of a merchant in the evaluator
MaxEvals == 2        \* evaluations running getVelocityData at the same time
MaxDays == 2         \* how far the clock of the cache store runs
MaxCacheTtls == 2    \* how many 5-minute periods the configuration cache is watched

\* One unit of the source's numbers in the fixed-point representation.
Unit == 100

\* ------------------------------------------------------------------------
\* JavaScript values (the `any` of RuleCondition.value and of a field value)
\* ------------------------------------------------------------------------
Num(n) == [t |-> "num", v |-> n]
Str(s) == [t |-> "str", v |-> s]
Bool(b) == [t |-> "bool", v |-> b]
Arr(a) == [t |-> "arr", v |-> a]
Obj(o) == [t |-> "obj", v |-> o]
Undef == [t |-> "undef", v |-> 0]
JsNull == [t |-> "null", v |-> 0]

\* The characters of the string literals the model uses.
Chars ==
  ("" :> <<>>) @@
  ("m1" :> <<"m", "1">>) @@
  ("m2" :> <<"m", "2">>) @@
  ("m" :> <<"m">>) @@
  ("1" :> <<"1">>) @@
  ("e1" :> <<"e", "1">>) @@
  ("e2" :> <<"e", "2">>) @@
  ("s1" :> <<"s", "1">>) @@
  ("v1" :> <<"v", "1">>) @@
  ("id1" :> <<"i", "d", "1">>) @@
  ("50" :> <<"5", "0">>) @@
  ("high_risk_country" :>
     <<"h", "i", "g", "h", "_", "r", "i", "s", "k", "_",
       "c", "o", "u", "n", "t", "r", "y">>) @@
  ("risk" :> <<"r", "i", "s", "k">>) @@
  ("merchant-123" :> <<"m", "e", "r", "c", "h", "a", "n", "t", "-", "1", "2", "3">>) @@
  ("session-123" :> <<"s", "e", "s", "s", "i", "o", "n", "-", "1", "2", "3">>) @@
  ("visitor-123" :> <<"v", "i", "s", "i", "t", "o", "r", "-", "1", "2", "3">>)

\* A string of the table, or a single character.
CharsOf(str) == IF str \in DOMAIN Chars THEN Chars[str] ELSE <<str>>

DigitVal == ("0" :> 0) @@ ("1" :> 1) @@ ("2" :> 2) @@ ("3" :> 3) @@ ("4" :> 4) @@
            ("5" :> 5) @@ ("6" :> 6) @@ ("7" :> 7) @@ ("8" :> 8) @@ ("9" :> 9)

DigitChar == <<"0", "1", "2", "3", "4", "5", "6", "7", "8", "9">>

\* Array.prototype.includes / String.prototype.includes on character
\* sequences: needle occurs as a contiguous run of hay.
SeqIncludes(hay, needle) ==
  \E i \in 0..(Len(hay) - Len(needle)) :
    \A k \in 1..Len(needle) : hay[i + k] = needle[k]

\* The decimal digits of a natural number, most significant first.
RECURSIVE NatDigits(_)
NatDigits(n) ==
  IF n < 10 THEN <<DigitChar[n + 1]>>
  ELSE NatDigits(n \div 10) \o <<DigitChar[(n % 10) + 1]>>

\* Number-to-string of a fixed-point number (n stands for n/100).
NumToChars(n) ==
  LET a == IF n < 0 THEN -n ELSE n
      whole == NatDigits(a \div Unit)
      frac == a % Unit
      fracChars == IF frac = 0 THEN <<>>
                   ELSE IF frac % 10 = 0 THEN <<".", DigitChar[(frac \div 10) + 1]>>
                   ELSE <<".", DigitChar[(frac \div 10) + 1], DigitChar[(frac % 10) + 1]>>
  IN (IF n < 0 THEN <<"-">> ELSE <<>>) \o whole \o fracChars

\* String(value), as String.prototype.includes applies it to its argument.
RECURSIVE ToChars(_)
RECURSIVE JoinChars(_)
JoinChars(a) ==
  IF Len(a) = 0 THEN <<>>
  ELSE LET h == IF a[1].t \in {"undef", "null"} THEN <<>> ELSE ToChars(a[1])
       IN IF Len(a) = 1 THEN h ELSE h \o <<",">> \o JoinChars(Tail(a))
ToChars(x) ==
  CASE x.t = "str" -> CharsOf(x.v)
    [] x.t = "num" -> NumToChars(x.v)
    [] x.t = "bool" -> IF x.v THEN <<"t", "r", "u", "e">> ELSE <<"f", "a", "l", "s", "e">>
    [] x.t = "undef" -> <<"u", "n", "d", "e", "f", "i", "n", "e", "d">>
    [] x.t = "null" -> <<"n", "u", "l", "l">>
    [] x.t = "arr" -> JoinChars(x.v)
    [] OTHER -> <<"[", "o", "b", "j", "e", "c", "t", "]">>

\* Number(string) for strings of the model's alphabet: the empty string is
\* 0, a run of digits is its value, anything else is NaN.
RECURSIVE DigitsValue(_)
DigitsValue(cs) ==
  IF Len(cs) = 0 THEN 0
  ELSE DigitsValue(SubSeq(cs, 1, Len(cs) - 1)) * 10 + DigitVal[cs[Len(cs)]]

NaN == [nan |-> TRUE, n |-> 0]
Finite(n) == [nan |-> FALSE, n |-> n]

CharsToNumber(cs) ==
  IF \A i \in 1..Len(cs) : cs[i] \in DOMAIN DigitVal
  THEN Finite(DigitsValue(cs) * Unit)
  ELSE NaN

\* ToNumber(value), the coercion the relational operators apply to their
\* right operand when the left one is a number.
ToNumber(x) ==
  CASE x.t = "num" -> Finite(x.v)
    [] x.t = "bool" -> Finite(IF x.v THEN Unit ELSE 0)
    [] x.t = "null" -> Finite(0)
    [] x.t = "undef" -> NaN
    [] x.t = "str" -> CharsToNumber(CharsOf(x.v))
    [] x.t = "arr" -> CharsToNumber(ToChars(x))
    [] OTHER -> NaN

\* fieldValue === value
StrictEq(a, b) ==
  /\ a.t = b.t
  /\ a.t \notin {"arr", "obj"}     \* two distinct objects are never identical
  /\ a.v = b.v

\* array.includes(value)
ArrIncludes(a, x) == \E i \in 1..Len(a) : StrictEq(a[i], x)

\* ------------------------------------------------------------------------
\* Decisioner: condition evaluator (DecisionService.matchesCondition)
\* ------------------------------------------------------------------------

\* JSON.parse of a risk_scores message: the RiskScore as an object.
RiskScoreObject(riskScore) ==
  Obj([id |-> Str(riskScore.id),
       evaluationId |-> Str(riskScore.evaluationId),
       sessionId |-> Str(riskScore.sessionId),
       merchantId |-> Str(riskScore.merchantId),
       visitorId |-> Str(riskScore.visitorId),
       score |-> Num(riskScore.score),
       isFraud |-> Bool(riskScore.isFraud),
       riskFactors |-> Arr([i \in 1..Len(riskScore.riskFactors) |->
                              Str(riskScore.riskFactors[i])]),
       timestamp |-> Num(riskScore.timestamp)])

\* value[part] for an object or an array: an own property, the length or an
\* element of an array, otherwise undefined.
Property(value, part) ==
  CASE value.t = "obj" ->
         IF part \in DOMAIN value.v THEN value.v[part] ELSE Undef
    [] value.t = "arr" ->
         (CASE part = "length" -> Num(Len(value.v) * Unit)
            [] part \in DOMAIN DigitVal /\ DigitVal[part] < Len(value.v)
                 -> value.v[DigitVal[part] + 1]
            [] OTHER -> Undef)
    [] OTHER -> Undef

\* getFieldValue: field is the dot path already split into its parts.
RECURSIVE Walk(_, _)
Walk(value, parts) ==
  IF Len(parts) = 0 THEN value
  ELSE IF value.t \notin {"obj", "arr"} THEN Undef
  ELSE Walk(Property(value, Head(parts)), Tail(parts))

getFieldValue(riskScore, field) == Walk(RiskScoreObject(riskScore), field)

Greater(a, b) == LET r == ToNumber(b) IN ~r.nan /\ a > r.n
GreaterEq(a, b) == LET r == ToNumber(b) IN ~r.nan /\ a >= r.n
Less(a, b) == LET r == ToNumber(b) IN ~r.nan /\ a < r.n
LessEq(a, b) == LET r == ToNumber(b) IN ~r.nan /\ a <= r.n

matchesCondition(riskScore, condition) ==
  LET fieldValue == getFieldValue(riskScore, condition.field)
      value == condition.value
      op == condition.operator
  IN CASE op = "eq" -> StrictEq(fieldValue, value)
       [] op = "neq" -> ~StrictEq(fieldValue, value)
       [] op = "gt" -> fieldValue.t = "num" /\ Greater(fieldValue.v, value)
       [] op = "gte" -> fieldValue.t = "num" /\ GreaterEq(fieldValue.v, value)
       [] op = "lt" -> fieldValue.t = "num" /\ Less(fieldValue.v, value)
       [] op = "lte" -> fieldValue.t = "num" /\ LessEq(fieldValue.v, value)
       [] op = "contains" ->
            IF fieldValue.t = "arr" THEN ArrIncludes(fieldValue.v, value)
            ELSE IF fieldValue.t = "str"
                 THEN SeqIncludes(CharsOf(fieldValue.v), ToChars(value))
            ELSE FALSE
       [] op = "not_contains" ->
            IF fieldValue.t = "arr" THEN ~ArrIncludes(fieldValue.v, value)
            ELSE IF fieldValue.t = "str"
                 THEN ~SeqIncludes(CharsOf(fieldValue.v), ToChars(value))
            ELSE TRUE
       [] op = "in" ->
            IF value.t = "arr" THEN ArrIncludes(value.v, fieldValue) ELSE FALSE
       [] op = "not_in" ->
            IF value.t = "arr" THEN ~ArrIncludes(value.v, fieldValue) ELSE TRUE
       [] OTHER -> FALSE

\* rule.conditions.every(...)
matchesRule(riskScore, rule) ==
  \A i \in 1..Len(rule.conditions) : matchesCondition(riskScore, rule.conditions[i])

\* ------------------------------------------------------------------------
\* Decisioner: rule and decision engine
\* ------------------------------------------------------------------------
RECURSIVE FilterEnabled(_)
FilterEnabled(rules) ==
  IF Len(rules) = 0 THEN <<>>
  ELSE IF Head(rules).isEnabled THEN <<Head(rules)>> \o FilterEnabled(Tail(rules))
  ELSE FilterEnabled(Tail(rules))

\* Array.prototype.sort with the comparator (a, b) => b.priority - a.priority:
\* a stable sort, higher priority first.  Insert places a rule behind every
\* rule that does not sort after it.
\* Variant of Insert: a rule is placed in front of the rules of equal priority.
RECURSIVE InsertBeforeTies(_, _)
InsertBeforeTies(rule, sorted) ==
  IF Len(sorted) = 0 THEN <<rule>>
  ELSE IF rule.priority - Head(sorted).priority >= 0
       THEN <<rule>> \o sorted
       ELSE <<Head(sorted)>> \o InsertBeforeTies(rule, Tail(sorted))

RECURSIVE Insert(_, _)
Insert(rule, sorted) ==
  IF Len(sorted) = 0 THEN <<rule>>
  ELSE IF rule.priority - Head(sorted).priority > 0
       THEN <<rule>> \o sorted
       ELSE <<Head(sorted)>> \o Insert(rule, Tail(sorted))

RECURSIVE SortByPriority(_)
SortByPriority(rules) ==
  IF Len(rules) = 0 THEN <<>>
  ELSE Insert(rules[Len(rules)], SortByPriority(SubSeq(rules, 1, Len(rules) - 1)))

NoRule == [found |-> FALSE, decision |-> "", reason |-> <<>>]

RECURSIVE FirstMatch(_, _)
FirstMatch(riskScore, sortedRules) ==
  IF Len(sortedRules) = 0 THEN NoRule
  ELSE LET rule == Head(sortedRules)
       IN IF matchesRule(riskScore, rule)
          THEN [found |-> TRUE,
                decision |-> rule.action,
                reason |-> [k |-> "rule", score |-> 0, threshold |-> 0,
                            text |-> <<rule.name,
                                       IF rule.description # "" THEN rule.description
                                       ELSE rule.id>>]]
          ELSE FirstMatch(riskScore, Tail(sortedRules))

applyCustomRules(riskScore, merchantRules) ==
  IF Len(merchantRules.customRules) = 0 THEN NoRule
  ELSE FirstMatch(riskScore, SortByPriority(FilterEnabled(merchantRules.customRules)))

getRiskLevel(score) ==
  IF score >= 90 THEN "critical"
  ELSE IF score >= 70 THEN "high"
  ELSE IF score >= 40 THEN "medium"
  ELSE "low"

\* Variant of createDecision: the reasoning mentions the decision id.
createDecisionWithId(riskScore, decisionId, decision, reasoning, now) ==
  [id |-> decisionId,
   evaluationId |-> riskScore.evaluationId,
   merchantId |-> riskScore.merchantId,
   decision |-> decision,
   riskScore |-> riskScore.score,
   riskLevel |-> getRiskLevel(riskScore.score),
   reasoning |-> Append(reasoning,
                   [k |-> "id", score |-> decisionId, threshold |-> 0, text |-> <<>>]),
   createdAt |-> now]

createDecision(riskScore, decisionId, decision, reasoning, now) ==
  [id |-> decisionId,
   evaluationId |-> riskScore.evaluationId,
   merchantId |-> riskScore.merchantId,
   decision |-> decision,
   riskScore |-> riskScore.score,
   riskLevel |-> getRiskLevel(riskScore.score),
   reasoning |-> reasoning,
   createdAt |-> now]

ThresholdReason(kind, riskScore, threshold) ==
  [k |-> kind, score |-> riskScore.score, threshold |-> threshold, text |-> <<>>]

FactorsReason(riskScore) ==
  IF Len(riskScore.riskFactors) > 0
  THEN <<[k |-> "factors", score |-> 0, threshold |-> 0, text |-> riskScore.riskFactors]>>
  ELSE <<>>

ThresholdDecision(riskScore, merchantRules, decisionId, now) ==
  IF riskScore.score >= merchantRules.highRiskThreshold
  THEN createDecision(riskScore, decisionId,
         IF merchantRules.automaticReject THEN "reject" ELSE "review",
         <<ThresholdReason("exceeds_high", riskScore, merchantRules.highRiskThreshold)>>
           \o FactorsReason(riskScore), now)
  ELSE IF riskScore.score >= merchantRules.riskThreshold
  THEN createDecision(riskScore, decisionId, "review",
         <<ThresholdReason("exceeds", riskScore, merchantRules.riskThreshold)>>
           \o FactorsReason(riskScore), now)
  ELSE createDecision(riskScore, decisionId, "approve",
         <<ThresholdReason("below", riskScore, merchantRules.riskThreshold)>>
           \o FactorsReason(riskScore), now)

\* Variant of decide: the high-risk threshold is applied before the custom
\* rules.
decideHighRiskFirst(riskScore, merchantRules, decisionId, now) ==
  LET customRuleResult == applyCustomRules(riskScore, merchantRules)
  IN IF riskScore.score >= merchantRules.highRiskThreshold \/ ~customRuleResult.found
     THEN ThresholdDecision(riskScore, merchantRules, decisionId, now)
     ELSE createDecision(riskScore, decisionId, customRuleResult.decision,
                         <<customRuleResult.reason>>, now)

\* Variant of decide: the thresholds are compared with > instead of >=.
decideStrictThresholds(riskScore, merchantRules, decisionId, now) ==
  LET customRuleResult == applyCustomRules(riskScore, merchantRules)
  IN IF customRuleResult.found
     THEN createDecision(riskScore, decisionId, customRuleResult.decision,
                         <<customRuleResult.reason>>, now)
     ELSE IF riskScore.score > merchantRules.highRiskThreshold
     THEN createDecision(riskScore, decisionId,
            IF merchantRules.automaticReject THEN "reject" ELSE "review",
            <<ThresholdReason("exceeds_high", riskScore, merchantRules.highRiskThreshold)>>
              \o FactorsReason(riskScore), now)
     ELSE IF riskScore.score > merchantRules.riskThreshold
     THEN createDecision(riskScore, decisionId, "review",
            <<ThresholdReason("exceeds", riskScore, merchantRules.riskThreshold)>>
              \o FactorsReason(riskScore), now)
     ELSE createDecision(riskScore, decisionId, "approve",
            <<ThresholdReason("below", riskScore, merchantRules.riskThreshold)>>
              \o FactorsReason(riskScore), now)

\* makeDecision once the merchant rules have been read.
decide(riskScore, merchantRules, decisionId, now) ==
  LET customRuleResult == applyCustomRules(riskScore, merchantRules)
  IN IF customRuleResult.found
     THEN createDecision(riskScore, decisionId, customRuleResult.decision,
                         <<customRuleResult.reason>>, now)
     ELSE IF riskScore.score >= merchantRules.highRiskThreshold
     THEN createDecision(riskScore, decisionId,
            IF merchantRules.automaticReject THEN "reject" ELSE "review",
            <<ThresholdReason("exceeds_high", riskScore, merchantRules.highRiskThreshold)>>
              \o FactorsReason(riskScore), now)
     ELSE IF riskScore.score >= merchantRules.riskThreshold
     THEN createDecision(riskScore, decisionId, "review",
            <<ThresholdReason("exceeds", riskScore, merchantRules.riskThreshold)>>
              \o FactorsReason(riskScore), now)
     ELSE createDecision(riskScore, decisionId, "approve",
            <<ThresholdReason("below", riskScore, merchantRules.riskThreshold)>>
              \o FactorsReason(riskScore), now)

\* ------------------------------------------------------------------------
\* State
\* ------------------------------------------------------------------------
VARIABLES
  drisk,     \* decide(): the RiskScore argument
  drules,    \* decide(): the MerchantRules argument
  dout,      \* decide(): the returned decision, <<>> before the call
  topic,     \* the risk_scores channel: the messages published so far
  position,  \* consumer: number of messages of the channel fetched
  committed, \* consumer group: number of messages whose offset is committed
  connected, \* the consumer is connected to the broker
  isRunning, \* EventConsumer.isRunning
  cpc,       \* where the poll cycle is: consuming, processing, timer, backoff, stopped, exited
  shutdown,  \* SIGINT or SIGTERM has been received
  polled,    \* what the last consume callback received: none, error, empty, batch
  batch,     \* the offsets of the batch the consume callback received last
  outcome,   \* how the handler ended for the messages of that batch handled so far
  rulesStore,        \* cache store: merchant:{id}:rules
  decisions,         \* cache store: decision:{id}
  published,         \* the transaction_decisions channel
  producerConnected, \* EventProducer.connected
  uuid,      \* the number of ids uuidv4() has returned
  now,       \* Date.now()
  sevent,    \* calculateRiskScore: the enriched event
  srules,    \* calculateRiskScore: the merchant's rules (cached or sample)
  sbusUp,    \* calculateRiskScore: the publish to risk_scores succeeds
  sresult,   \* calculateRiskScore: the returned RiskScore, <<>> before the call
  sproduced, \* calculateRiskScore: what was published to risk_scores
  vevent,    \* getVelocityData: the event of each evaluation
  vpc,       \* getVelocityData: the await each evaluation is at
  vlocal,    \* getVelocityData: the counts and the timestamp read so far
  vstore,    \* cache store: the velocity:* keys
  vclock,    \* cache store: its clock, in seconds
  settingsStore, \* evaluator cache store: merchant:{id}:settings
  cfgRead,   \* the last configuration read and what it returned, <<>> before
  cfgClock,  \* configuration cache: its clock, in seconds
  erequest,  \* POST /evaluate: the request of each evaluation
  efail,     \* POST /evaluate: the dependency that fails while the requests run
  ecache,    \* evaluator cache store: the merchant's settings and rules, the velocity counts
  ebus,      \* the raw_events and risk_scores channels
  eresponse, \* POST /evaluate: what each evaluation answered, <<>> before
  edecided,  \* the decisions the decisioner made for the published risk scores, in order
  ccondition, \* condition evaluation: the service, the subject's field, the operator and the value
  cresult,   \* condition evaluation: what it returned, <<>> before
  pconnected,    \* poll cycles: whether the consumer's last event was 'ready'
  pisRunning,    \* poll cycles: EventConsumer.isRunning
  ppollInterval, \* poll cycles: EventConsumer.pollInterval, 0 for null
  pcycle,        \* poll cycles: where each poll cycle is
  kconfig,   \* SDK: the configuration of the FraudShield instance
  kpc,       \* SDK: where evaluate() is
  kserver,   \* SDK: the result the API answered, <<>> before
  kresult    \* SDK: what evaluate() resolved with, <<>> before

decideVars == <<drisk, drules, dout>>
busVars == <<topic, position, committed>>
consumerVars == <<connected, isRunning, cpc, shutdown, polled, batch, outcome>>
storeVars == <<rulesStore, decisions, published, producerConnected, uuid, now>>
decisionerVars == <<busVars, consumerVars, storeVars>>

scoreVars == <<sevent, srules, sbusUp, sresult, sproduced>>

velocityVars == <<vevent, vpc, vlocal, vstore, vclock>>

configVars == <<settingsStore, cfgRead, cfgClock>>

evaluateVars == <<erequest, efail, ecache, ebus, eresponse, edecided>>

conditionVars == <<ccondition, cresult>>

cycleVars == <<pconnected, pisRunning, ppollInterval, pcycle>>

sdkVars == <<kconfig, kpc, kserver, kresult>>

vars ==
  <<decideVars, decisionerVars, scoreVars, velocityVars, configVars, evaluateVars,
    conditionVars, cycleVars, sdkVars>>

\* What the steps of one part of the system leave alone.
outsideDecide ==
  <<decisionerVars, scoreVars, velocityVars, configVars, evaluateVars, conditionVars,
    cycleVars, sdkVars>>
outsideDecisioner ==
  <<decideVars, scoreVars, velocityVars, configVars, evaluateVars, conditionVars,
    cycleVars, sdkVars>>
outsideScore ==
  <<decideVars, decisionerVars, velocityVars, configVars, evaluateVars, conditionVars,
    cycleVars, sdkVars>>
outsideVelocity ==
  <<decideVars, decisionerVars, scoreVars, configVars, evaluateVars, conditionVars,
    cycleVars, sdkVars>>
outsideConfig ==
  <<decideVars, busVars, consumerVars, decisions, published, producerConnected,
    uuid, now, scoreVars, velocityVars, evaluateVars, conditionVars,
    cycleVars, sdkVars>>
outsideEvaluate ==
  <<decideVars, decisionerVars, scoreVars, velocityVars, configVars, conditionVars,
    cycleVars, sdkVars>>
outsideCondition ==
  <<decideVars, decisionerVars, scoreVars, velocityVars, configVars, evaluateVars,
    cycleVars, sdkVars>>
outsideCycle ==
  <<decideVars, decisionerVars, scoreVars, velocityVars, configVars, evaluateVars,
    conditionVars, sdkVars>>
outsideSdk ==
  <<decideVars, decisionerVars, scoreVars, velocityVars, configVars, evaluateVars,
    conditionVars, cycleVars>>

\* The variables of the decisioner while decide() alone is looked at.
DecisionerIdle ==
  /\ topic = <<>> /\ position = 0 /\ committed = 0
  /\ connected = FALSE /\ isRunning = FALSE /\ cpc = "stopped"
  /\ shutdown = FALSE /\ polled = "none"
  /\ batch = <<>> /\ outcome = <<>>
  /\ rulesStore = <<>> /\ decisions = {} /\ published = <<>>
  /\ producerConnected = FALSE /\ uuid = 0 /\ now = 0

\* The variables of decide() while the decisioner service is looked at.
DecideIdle == drisk = <<>> /\ drules = <<>> /\ dout = <<>>

\* The variables of calculateRiskScore while it is not looked at.
ScoreIdle ==
  /\ sevent = <<>> /\ srules = <<>> /\ sbusUp = FALSE
  /\ sresult = <<>> /\ sproduced = <<>>

\* The variables of getVelocityData while it is not looked at.
VelocityIdle ==
  /\ vevent = <<>> /\ vpc = <<>> /\ vlocal = <<>> /\ vstore = <<>>
  /\ vclock = 0

\* The variables of the configuration reads while they are not looked at.
ConfigIdle == settingsStore = <<>> /\ cfgRead = <<>> /\ cfgClock = 0

EvaluateIdle ==
  /\ erequest = <<>> /\ efail = "none" /\ ecache = <<>>
  /\ ebus = <<>> /\ eresponse = <<>> /\ edecided = <<>>

ConditionIdle == ccondition = <<>> /\ cresult = <<>>

CycleIdle ==
  /\ pconnected = FALSE /\ pisRunning = FALSE /\ ppollInterval = 0 /\ pcycle = <<>>

SdkIdle == kconfig = <<>> /\ kpc = "idle" /\ kserver = <<>> /\ kresult = <<>>

\* ------------------------------------------------------------------------
\* decide() on bounded inputs
\* ------------------------------------------------------------------------
Actions == {"approve", "review", "reject"}

\* score, thresholds: 0.65, 0.7, 0.9 (the scale of the decisioner's defaults
\* and tests) and 39, 70, 90 (the scale of the evaluator's scores).
DecideScores == {65, 70, 90, 39 * Unit}
DecideThresholds == {<<70, 90>>, <<70 * Unit, 90 * Unit>>}
FactorLists == {<<>>, <<"high_risk_country">>}

Condition(field, operator, value) ==
  [field |-> field, operator |-> operator, value |-> value]

ConditionLists ==
  { <<>>,
    <<Condition(<<"riskFactors">>, "contains", Str("high_risk_country"))>>,
    <<Condition(<<"score">>, "gte", Num(70)),
      Condition(<<"riskFactors", "length">>, "lt", Str("1"))>> }

RuleName == <<"r1", "r2", "r3", "r4">>

\* The rule at position i of a merchant's list; its id and name tell the
\* position.
RulesAt(i) ==
  [id : {RuleName[i]}, name : {RuleName[i]}, description : {""},
   conditions : ConditionLists, action : Actions,
   priority : 1..MaxPriority, isEnabled : BOOLEAN]

RECURSIVE RuleLists(_)
RuleLists(n) ==
  IF n = 0 THEN {<<>>}
  ELSE {Append(l, r) : l \in RuleLists(n - 1), r \in RulesAt(n)}

AllRuleLists == UNION {RuleLists(n) : n \in 0..MaxRules}

MakeRiskScore(evaluationId, merchantId, score, factors) ==
  [id |-> "id1", evaluationId |-> evaluationId, sessionId |-> "s1",
   merchantId |-> merchantId, visitorId |-> "v1", score |-> score,
   isFraud |-> (score >= 70 * Unit), riskFactors |-> factors, timestamp |-> 0]

MakeMerchantRules(merchantId, thresholds, automaticReject, customRules) ==
  [merchantId |-> merchantId, riskThreshold |-> thresholds[1],
   highRiskThreshold |-> thresholds[2], automaticReject |-> automaticReject,
   customRules |-> customRules]

InitDecide ==
  /\ ConditionIdle
  /\ CycleIdle
  /\ SdkIdle
  /\ EvaluateIdle
  /\ \E s \in DecideScores, f \in FactorLists :
       drisk = MakeRiskScore("e1", "m1", s, f)
  /\ \E th \in DecideThresholds, ar \in BOOLEAN, rl \in AllRuleLists :
       drules = MakeMerchantRules("m1", th, ar, rl)
  /\ dout = <<>>
  /\ DecisionerIdle
  /\ ScoreIdle
  /\ VelocityIdle
  /\ ConfigIdle

Decide ==
  /\ dout = <<>>
  /\ dout' = <<decide(drisk, drules, 1, 1)>>
  /\ UNCHANGED <<drisk, drules, outsideDecide>>

NextDecide == Decide

SpecDecide == InitDecide /\ [][NextDecide]_vars

\* ------------------------------------------------------------------------
\* Properties of decide()
\* ------------------------------------------------------------------------
ThresholdKinds == {"exceeds_high", "exceeds", "below"}

\* The positions of the enabled rules whose conditions all match.
EnabledMatching(riskScore, merchantRules) ==
  {i \in 1..Len(merchantRules.customRules) :
     /\ merchantRules.customRules[i].isEnabled
     /\ matchesRule(riskScore, merchantRules.customRules[i])}

\* The first of them in priority order: highest priority, and among equal
\* priorities the first of the original list.
FirstInPriorityOrder(riskScore, merchantRules) ==
  LET em == EnabledMatching(riskScore, merchantRules)
      rules == merchantRules.customRules
  IN CHOOSE w \in em :
       \A j \in em \ {w} :
         \/ rules[w].priority > rules[j].priority
         \/ rules[w].priority = rules[j].priority /\ w < j

Decided == dout # <<>>

\* C3: whenever at least one enabled custom rule fully matches the
\* RiskScore, the decision is the action of the first matching rule in
\* priority order, whatever riskThreshold, highRiskThreshold and
\* automaticReject are, and the reasoning holds no threshold string.
C3_CustomRuleOverridesThresholds ==
  (Decided /\ EnabledMatching(drisk, drules) # {}) =>
    /\ dout[1].decision =
         drules.customRules[FirstInPriorityOrder(drisk, drules)].action
    /\ \A i \in 1..Len(dout[1].reasoning) :
         dout[1].reasoning[i].k \notin ThresholdKinds

\* A matching rule approves a score at or above the high-risk threshold of a
\* merchant with automaticReject.
C3_Witness ==
  /\ Decided
  /\ EnabledMatching(drisk, drules) # {}
  /\ drisk.score >= drules.highRiskThreshold
  /\ drules.automaticReject
  /\ dout[1].decision = "approve"

\* C4: when no enabled custom rule matches, score >= highRiskThreshold gives
\* reject if automaticReject and review otherwise; else score >=
\* riskThreshold gives review; else approve.
C4_ThresholdFallback ==
  (Decided /\ EnabledMatching(drisk, drules) = {}) =>
    dout[1].decision =
      IF drisk.score >= drules.highRiskThreshold
      THEN (IF drules.automaticReject THEN "reject" ELSE "review")
      ELSE IF drisk.score >= drules.riskThreshold THEN "review"
      ELSE "approve"

\* A score equal to the high-risk threshold, automaticReject off, rules
\* present but none matching: review.
C4_Witness ==
  /\ Decided
  /\ Len(drules.customRules) > 0
  /\ EnabledMatching(drisk, drules) = {}
  /\ drisk.score = drules.highRiskThreshold
  /\ ~drules.automaticReject
  /\ dout[1].decision = "review"

\* The name of the rule the reasoning says was applied, "" if none.
AppliedRule ==
  IF Len(dout[1].reasoning) > 0 /\ dout[1].reasoning[1].k = "rule"
  THEN dout[1].reasoning[1].text[1]
  ELSE ""

\* C5: only enabled rules are considered; of two enabled rules that both
\* match, the one with the higher priority determines the decision, and on
\* equal priority the one appearing first in the original list does.
C5_RulePriority ==
  Decided =>
    LET em == EnabledMatching(drisk, drules)
        rules == drules.customRules
    IN /\ em = {} => AppliedRule = ""
       /\ \A i \in em : \A j \in em :
            (\/ rules[i].priority > rules[j].priority
             \/ rules[i].priority = rules[j].priority /\ i < j)
            => /\ AppliedRule # rules[j].name
               /\ (AppliedRule = rules[i].name => dout[1].decision = rules[i].action)
       /\ em # {} => \E i \in em : AppliedRule = rules[i].name

\* Two enabled matching rules, the second of the list with the higher
\* priority and another action: the second one decides.
C5_Witness ==
  /\ Decided
  /\ Len(drules.customRules) >= 2
  /\ {1, 2} \subseteq EnabledMatching(drisk, drules)
  /\ drules.customRules[2].priority > drules.customRules[1].priority
  /\ drules.customRules[2].action # drules.customRules[1].action
  /\ AppliedRule = drules.customRules[2].name
  /\ dout[1].decision = drules.customRules[2].action

\* The documented bands of an integer score in [0,100].
DocumentedRiskLevel(score) ==
  IF score >= 90 THEN "critical"
  ELSE IF score >= 70 THEN "high"
  ELSE IF score >= 40 THEN "medium"
  ELSE "low"

\* C6: for every decision, riskLevel is the documented band of the integer
\* score in [0,100]: >= 90 critical, >= 70 high, >= 40 medium, otherwise low.
C6_RiskLevelBands ==
  (Decided /\ dout[1].riskScore % Unit = 0
           /\ dout[1].riskScore \in 0..(100 * Unit)) =>
    dout[1].riskLevel = DocumentedRiskLevel(dout[1].riskScore \div Unit)

\* ------------------------------------------------------------------------
\* Decisioner service: bus consumer, decision store, decision API
\* ------------------------------------------------------------------------
BatchSize == 100
MerchantKeys == {"m1", "merchant-123", "default"}
EvaluationIds == <<"e1", "e2", "e3", "e4">>
Absent == <<>>
\* The evaluation ids the decision API is asked about.
RequestEvaluationIds == {"e1"}

\* config.rules.defaultRiskThreshold (0.7) and highRiskThreshold (0.9)
defaultRiskThreshold == 70
highRiskThreshold == 90

\* setupDefaultMerchantRules: the record stored under `default`.
DefaultMerchantRules ==
  MakeMerchantRules("default", <<defaultRiskThreshold, highRiskThreshold>>, TRUE,
    << [id |-> "high-risk-country", name |-> "High Risk Country",
        description |-> "Transactions from high-risk countries require manual review",
        conditions |-> <<Condition(<<"riskFactors">>, "contains",
                                   Str("high_risk_country"))>>,
        action |-> "review", priority |-> 100 * Unit, isEnabled |-> TRUE] >>)

\* The merchant-specific records the cache may hold for m1: none, or a
\* record whose custom rule has the action flag.
M1Rules ==
  { Absent,
    MakeMerchantRules("m1", <<50 * Unit, 80 * Unit>>, FALSE,
      << [id |-> "r1", name |-> "r1", description |-> "",
          conditions |-> <<Condition(<<"riskFactors">>, "contains",
                                     Str("high_risk_country"))>>,
          action |-> "flag", priority |-> 1, isEnabled |-> TRUE] >>) }

\* DecisionService.getMerchantRules: merchant record, else the default
\* record under the merchant's id, else the system defaults.
getMerchantRules(store, merchantId) ==
  LET merchantRules == IF merchantId \in DOMAIN store THEN store[merchantId] ELSE Absent
      defaultRules == store["default"]
  IN IF merchantRules # Absent THEN merchantRules
     ELSE IF defaultRules # Absent THEN [defaultRules EXCEPT !.merchantId = merchantId]
     ELSE MakeMerchantRules(merchantId, <<defaultRiskThreshold, highRiskThreshold>>,
                            TRUE, <<>>)

\* The messages the evaluator may publish to risk_scores: a RiskScore, or
\* an invalid payload, which is not JSON for the first message and a
\* RiskScore without merchantId for the later ones.
BusScores == {30 * Unit}
NotJson == [kind |-> "garbage", rs |-> <<>>]
NoMerchantId(evaluationId) ==
  [kind |-> "risk", rs |-> MakeRiskScore(evaluationId, "", 30 * Unit, <<>>)]
BusMessages(evaluationId) ==
  {[kind |-> "risk", rs |-> MakeRiskScore(evaluationId, "m1", sc, f)] :
     sc \in BusScores, f \in FactorLists}
    \cup {IF evaluationId = "e1" THEN NotJson ELSE NoMerchantId(evaluationId)}

\* EventConsumer.parseMessage: null for a payload that does not parse or
\* that lacks id, evaluationId or merchantId.
parseMessage(message) ==
  IF message.kind # "risk" THEN Absent
  ELSE IF message.rs.id = "" \/ message.rs.evaluationId = "" \/ message.rs.merchantId = ""
  THEN Absent
  ELSE message.rs

\* getRiskScoreForEvaluation: the mock risk score of the decision API.
getRiskScoreForEvaluation(evaluationId) ==
  [id |-> "id1", evaluationId |-> evaluationId, sessionId |-> "session-123",
   merchantId |-> "merchant-123", visitorId |-> "visitor-123", score |-> 65,
   isFraud |-> FALSE, riskFactors |-> <<"multiple_accounts", "unusual_behavior">>,
   timestamp |-> 0]

\* The JSON text stored under decision:{id}.
StoredDecision(decision, transactionId, userId, metadata) ==
  [id |-> decision.id, evaluationId |-> decision.evaluationId,
   merchantId |-> decision.merchantId, decision |-> decision.decision,
   riskScore |-> decision.riskScore, riskLevel |-> decision.riskLevel,
   reasoning |-> decision.reasoning, createdAt |-> decision.createdAt,
   transactionId |-> transactionId, userId |-> userId, metadata |-> metadata]

Init ==
  /\ ConditionIdle
  /\ CycleIdle
  /\ SdkIdle
  /\ EvaluateIdle
  /\ DecideIdle
  /\ ScoreIdle
  /\ VelocityIdle
  /\ ConfigIdle
  /\ topic = <<>> /\ position = 0 /\ committed = 0
  /\ connected = FALSE /\ isRunning = FALSE /\ cpc = "stopped"
  /\ shutdown = FALSE /\ polled = "none"
  /\ batch = <<>> /\ outcome = <<>>
  /\ \E m1 \in M1Rules :
       rulesStore = [k \in MerchantKeys |->
                       IF k = "default" THEN DefaultMerchantRules
                       ELSE IF k = "m1" THEN m1 ELSE Absent]
  /\ decisions = {} /\ published = <<>>
  /\ producerConnected \in BOOLEAN
  /\ uuid = 0 /\ now = 0

\* The handler runs the consumer still has before it without a new message,
\* request or reconnect: the rest of its batch and what it has not fetched.
Pending ==
  (IF cpc = "processing" THEN Len(batch) - Len(outcome) ELSE 0)
    + (Len(topic) - position)

\* The evaluator publishes a message to risk_scores.
PublishRiskScore ==
  /\ Len(topic) < MaxTopic
  /\ uuid + Pending + 1 <= MaxUuid
  /\ \E m \in BusMessages(EvaluationIds[Len(topic) + 1]) : topic' = Append(topic, m)
  /\ UNCHANGED <<position, committed, consumerVars, storeVars, outsideDecisioner>>

consumerPollInterval == 100

errorDelay == 5000

\* The delay of the pending poll timer, 0 when there is none.
TimerDelay ==
  CASE cpc = "backoff" -> errorDelay
    [] cpc = "timer" -> consumerPollInterval
    [] OTHER -> 0

\* Variant of ConsumeError: the next poll is scheduled after the normal
\* interval.
ConsumeErrorNormalInterval ==
  /\ cpc = "consuming"
  /\ cpc' = "timer"
  /\ polled' = "error"
  /\ UNCHANGED <<connected, isRunning, shutdown, batch, outcome, busVars, storeVars,
                 outsideDecisioner>>

\* consume callback with an error, or consume throws: the next poll is
\* scheduled after 5000 ms.
ConsumeError ==
  /\ cpc = "consuming"
  /\ cpc' = "backoff"
  /\ polled' = "error"
  /\ UNCHANGED <<connected, isRunning, shutdown, batch, outcome, busVars, storeVars,
                 outsideDecisioner>>

\* consume callback without error: up to 100 messages from the position.
ConsumeDeliver ==
  /\ cpc = "consuming"
  /\ connected
  /\ LET last == IF position + BatchSize < Len(topic) THEN position + BatchSize
                 ELSE Len(topic)
     IN IF last > position
        THEN /\ batch' = [i \in 1..(last - position) |-> position + i]
             /\ outcome' = <<>>
             /\ position' = last
             /\ cpc' = "processing"
             /\ polled' = "batch"
        ELSE /\ cpc' = "timer"
             /\ polled' = "empty"
             /\ UNCHANGED <<batch, outcome, position>>
  /\ UNCHANGED <<connected, isRunning, shutdown, topic, committed, storeVars,
                 outsideDecisioner>>

\* Variant of HandleMessage: a message that does not parse ends the loop of
\* processMessages, the rest of the batch is passed over.
HandleMessageStopsAtInvalid ==
  /\ cpc = "processing"
  /\ Len(outcome) < Len(batch)
  /\ LET riskScore == parseMessage(topic[batch[Len(outcome) + 1]])
     IN IF riskScore = Absent
        THEN /\ outcome' = outcome \o [i \in 1..(Len(batch) - Len(outcome)) |-> "skipped"]
             /\ UNCHANGED storeVars
        ELSE /\ uuid < MaxUuid
             /\ uuid' = uuid + 1
             /\ now' = now + 1
             /\ \E fail \in {"none", "rules", "store", "publish"} :
                  LET decision == decide(riskScore,
                                         getMerchantRules(rulesStore, riskScore.merchantId),
                                         uuid + 1, now + 1)
                      stored == fail \notin {"rules", "store"}
                      sent == stored /\ fail # "publish" /\ producerConnected
                  IN /\ decisions' = IF stored
                                     THEN decisions \cup {StoredDecision(decision, "", "", "")}
                                     ELSE decisions
                     /\ published' = IF sent THEN Append(published, decision)
                                     ELSE published
                     /\ outcome' = Append(outcome, IF sent THEN "ok" ELSE "error")
             /\ UNCHANGED <<rulesStore, producerConnected>>
  /\ UNCHANGED <<connected, isRunning, cpc, shutdown, polled, batch, busVars,
                 outsideDecisioner>>

\* One turn of the loop of processMessages: parseMessage, then
\* processRiskScore, which catches every error of makeDecision,
\* storeDecision and publishDecision.
HandleMessage ==
  /\ cpc = "processing"
  /\ Len(outcome) < Len(batch)
  /\ LET riskScore == parseMessage(topic[batch[Len(outcome) + 1]])
     IN IF riskScore = Absent
        THEN /\ outcome' = Append(outcome, "skipped")
             /\ UNCHANGED storeVars
        ELSE /\ uuid < MaxUuid
             /\ uuid' = uuid + 1
             /\ now' = now + 1
             /\ \E fail \in {"none", "rules", "store", "publish"} :
                  LET decision == decide(riskScore,
                                         getMerchantRules(rulesStore, riskScore.merchantId),
                                         uuid + 1, now + 1)
                      stored == fail \notin {"rules", "store"}
                      sent == stored /\ fail # "publish" /\ producerConnected
                  IN /\ decisions' = IF stored
                                     THEN decisions \cup {StoredDecision(decision, "", "", "")}
                                     ELSE decisions
                     /\ published' = IF sent THEN Append(published, decision)
                                     ELSE published
                     /\ outcome' = Append(outcome, IF sent THEN "ok" ELSE "error")
             /\ UNCHANGED <<rulesStore, producerConnected>>
  /\ UNCHANGED <<connected, isRunning, cpc, shutdown, polled, batch, busVars,
                 outsideDecisioner>>

\* Variant of CommitBatch: after a batch with a failed message no poll is
\* scheduled.
CommitBatchStopsOnFailure ==
  /\ cpc = "processing"
  /\ Len(outcome) = Len(batch)
  /\ committed' = IF connected THEN position ELSE committed
  /\ cpc' = IF \E i \in 1..Len(outcome) : outcome[i] = "error" THEN "stopped" ELSE "timer"
  /\ UNCHANGED <<connected, isRunning, shutdown, polled, batch, outcome, topic,
                 position, storeVars, outsideDecisioner>>

\* processMessages has returned: commit, then schedule the next poll.  A
\* commit on a disconnected consumer throws and is caught.
CommitBatch ==
  /\ cpc = "processing"
  /\ Len(outcome) = Len(batch)
  /\ committed' = IF connected THEN position ELSE committed
  /\ cpc' = "timer"
  /\ UNCHANGED <<connected, isRunning, shutdown, polled, batch, outcome, topic,
                 position, storeVars, outsideDecisioner>>

\* The poll timer fires: poll() issues a consume request if still running.
TimerFires ==
  /\ cpc \in {"timer", "backoff"}
  /\ cpc' = IF isRunning THEN "consuming" ELSE "stopped"
  /\ UNCHANGED <<connected, isRunning, shutdown, polled, batch, outcome, busVars,
                 storeVars, outsideDecisioner>>

\* Variant of Disconnected: the flag and the timer are left as they are.
DisconnectedKeepsPolling ==
  /\ connected
  /\ connected' = FALSE
  /\ UNCHANGED <<isRunning, cpc, shutdown, polled, batch, outcome, busVars, storeVars,
                 outsideDecisioner>>

\* 'disconnected' event: stopPolling clears the flag and a pending timer.
Disconnected ==
  /\ connected
  /\ connected' = FALSE
  /\ isRunning' = FALSE
  /\ cpc' = IF cpc \in {"timer", "backoff"} THEN "stopped" ELSE cpc
  /\ UNCHANGED <<shutdown, polled, batch, outcome, busVars, storeVars, outsideDecisioner>>

\* 'ready' event, after connect() or after a reconnect once the previous
\* poll cycle has ended: the group resumes from the committed offset;
\* subscribe and startPolling.
Ready ==
  /\ ~connected
  /\ ~shutdown
  /\ cpc = "stopped"
  /\ uuid + (Len(topic) - committed) <= MaxUuid
  /\ connected' = TRUE
  /\ isRunning' = TRUE
  /\ position' = committed
  /\ cpc' = "consuming"
  /\ UNCHANGED <<shutdown, polled, batch, outcome, topic, committed, storeVars,
                 outsideDecisioner>>

\* SIGINT or SIGTERM: server.close() runs the onClose hook, disconnect():
\* stopPolling, then consumer.disconnect() is requested.
Shutdown ==
  /\ ~shutdown
  /\ cpc # "exited"
  /\ shutdown' = TRUE
  /\ isRunning' = FALSE
  /\ cpc' = IF cpc \in {"timer", "backoff"} THEN "stopped" ELSE cpc
  /\ UNCHANGED <<connected, polled, batch, outcome, busVars, storeVars, outsideDecisioner>>

\* The disconnect has completed, server.close() resolves: process.exit(0).
Exit ==
  /\ shutdown
  /\ ~connected
  /\ cpc # "exited"
  /\ cpc' = "exited"
  /\ UNCHANGED <<connected, isRunning, shutdown, polled, batch, outcome, busVars,
                 storeVars, outsideDecisioner>>

\* POST /decisions: makeDecisionFromRequest.
DecisionRequest ==
  /\ uuid + Pending + 1 <= MaxUuid
  /\ uuid' = uuid + 1
  /\ now' = now + 1
  /\ \E evaluationId \in RequestEvaluationIds, transactionId \in {"tx1"},
        fail \in {"none", "rules", "store"} :
       LET riskScore == getRiskScoreForEvaluation(evaluationId)
           decision == decide(riskScore,
                              getMerchantRules(rulesStore, riskScore.merchantId),
                              uuid + 1, now + 1)
       IN decisions' = IF fail = "none"
                       THEN decisions \cup {StoredDecision(decision, transactionId, "", "")}
                       ELSE decisions
  /\ UNCHANGED <<rulesStore, published, producerConnected, busVars, consumerVars,
                 outsideDecisioner>>

Next ==
  \/ PublishRiskScore
  \/ ConsumeError
  \/ ConsumeDeliver
  \/ HandleMessage
  \/ CommitBatch
  \/ TimerFires
  \/ Disconnected
  \/ Ready
  \/ Shutdown
  \/ Exit
  \/ DecisionRequest

Spec == Init /\ [][Next]_vars

\* The event loop runs every continuation and every timer that is due.
SpecLive ==
  /\ Init /\ [][Next]_vars
  /\ WF_vars(HandleMessage)
  /\ WF_vars(CommitBatch)
  /\ WF_vars(TimerFires)

\* ------------------------------------------------------------------------
\* Properties of the decisioner service
\* ------------------------------------------------------------------------

\* C1: when the handler fails for a message of a polled batch, the offsets of
\* that batch are not committed.
C1_FailedBatchNotCommitted ==
  \A i \in 1..Len(outcome) : outcome[i] = "error" => committed < batch[i]

\* C2: at most one decision record exists for a given evaluationId.
C2_OneDecisionPerEvaluation ==
  \A d1 \in decisions : \A d2 \in decisions :
    d1.evaluationId = d2.evaluationId => d1 = d2

\* C9: the decisions made for the same RiskScore under the same
\* MerchantRules (a message of risk_scores delivered again) have the same
\* decision, riskLevel and reasoning; only id and creation time may differ.
C9_RedeliverySameContent ==
  \A i \in 1..Len(published) : \A j \in 1..Len(published) :
    published[i].evaluationId = published[j].evaluationId =>
      /\ published[i].decision = published[j].decision
      /\ published[i].riskLevel = published[j].riskLevel
      /\ published[i].reasoning = published[j].reasoning

\* The same message was decided twice, under two ids at two times.
C9_Witness ==
  \E i \in 1..Len(published) : \E j \in 1..Len(published) :
    /\ published[i].evaluationId = published[j].evaluationId
    /\ published[i].id # published[j].id
    /\ published[i].createdAt # published[j].createdAt

\* A commit is issued: the committed offset moves.
Commits == committed' # committed

\* A consume request is issued.
Polls == cpc # "consuming" /\ cpc' = "consuming"

\* C13: offsets are committed only after the handler has finished
\* successfully for every message of the polled batch, never while a message
\* of the batch is being processed and never for a poll that returned an
\* error or no messages.
C13_CommitAfterWholeBatchSucceeded ==
  [][Commits =>
       /\ cpc = "processing" /\ polled = "batch"
       /\ Len(outcome) = Len(batch)
       /\ \A i \in 1..Len(outcome) : outcome[i] \in {"ok", "skipped"}]_vars

\* C14: after the shutdown signal the consumer is not disconnected and the
\* process does not exit while a batch is in flight, and no poll is issued.
C14_DrainOnShutdown ==
  [][/\ (shutdown' /\ connected /\ ~connected') => cpc # "processing"
     /\ (cpc # "exited" /\ cpc' = "exited") => cpc # "processing"
     /\ shutdown => ~Polls]_vars

\* C15: while the consumer is running, every poll that has returned (an
\* error, no messages, or a batch, whose handler may have failed) is
\* eventually followed by another poll.
C15_LoopNeverDies ==
  (isRunning /\ cpc \in {"processing", "timer", "backoff"})
    ~> (cpc = "consuming" \/ ~isRunning)

\* A poll issued after a batch with a failed message.
C15_Witness ==
  /\ isRunning /\ cpc = "consuming" /\ polled = "batch"
  /\ \E i \in 1..Len(outcome) : outcome[i] = "error"

\* C16: a consume error processes and commits nothing and schedules the
\* next poll after 5000 ms; a processed batch, failed messages or not,
\* schedules it after the normal interval.
C16_ErrorBackoff ==
  [][/\ (cpc = "consuming" /\ cpc' \in {"timer", "backoff"} /\ polled' = "error") =>
          /\ TimerDelay' = 5000
          /\ UNCHANGED <<batch, outcome, position, committed, decisions, published>>
     /\ (cpc = "processing" /\ cpc' \in {"timer", "backoff"}) =>
          TimerDelay' = consumerPollInterval]_vars

\* A consume error after a batch with a failed message.
C16_Witness ==
  /\ cpc = "backoff" /\ polled = "error"
  /\ \E i \in 1..Len(outcome) : outcome[i] = "error"

\* C17: a consume request is issued only while connected and running: none
\* before the first 'ready' and none between 'disconnected' and the next
\* 'ready'.
C17_PollsOnlyWhenReady ==
  [][Polls => (connected' /\ isRunning')]_vars

\* The consumer was disconnected with a batch in flight; the batch has been
\* handled and the poll cycle has stopped.
C17_Witness ==
  /\ ~connected /\ ~shutdown /\ cpc = "stopped"
  /\ Len(batch) > 0 /\ Len(outcome) = Len(batch)
  /\ committed < position

\* C28: every decision stored or published has decision approve, review or
\* reject, whatever the action of the custom rule that matched.
C28_DecisionInVocabulary ==
  /\ \A d \in decisions : d.decision \in Actions
  /\ \A i \in 1..Len(published) : published[i].decision \in Actions

\* C29: a decision request for an evaluation for which no risk score
\* exists stores no decision.
C29_NotFoundStoresNothing ==
  \A d \in decisions :
    d.transactionId = "tx1" =>
      \E i \in 1..Len(topic) :
        /\ parseMessage(topic[i]) # Absent
        /\ parseMessage(topic[i]).evaluationId = d.evaluationId

\* The decisions the handler of the bus messages has stored.
HandlerDecisions == {d \in decisions : d.transactionId = ""}

\* C32: the decisions made for one evaluation on the request path and on
\* the bus path have the same decision, riskScore, riskLevel and reasoning.
C32_PathsAgree ==
  \A d \in decisions, e \in HandlerDecisions :
    (d.transactionId = "tx1" /\ d.evaluationId = e.evaluationId)
      => /\ d.decision = e.decision
         /\ d.riskScore = e.riskScore
         /\ d.riskLevel = e.riskLevel
         /\ d.reasoning = e.reasoning

\* C33: once the handler has returned for a message, the decision it
\* stored is on the transaction_decisions channel.
C33_StoredThenPublished ==
  \A d \in HandlerDecisions :
    \E i \in 1..Len(published) : published[i].id = d.id

\* The evaluation ids of the messages that parse.
IsValid(message) ==
  /\ message.kind = "risk"
  /\ message.rs.id # "" /\ message.rs.evaluationId # "" /\ message.rs.merchantId # ""

ValidEvaluationIds ==
  {topic[i].rs.evaluationId : i \in {j \in 1..Len(topic) : IsValid(topic[j])}}

\* C39: a message that does not parse or lacks id, evaluationId or
\* merchantId is skipped: no decision is stored or published for it, and
\* the messages after it in the batch are still handled, one at a time in
\* the order of the batch.
C39_InvalidMessageSkipped ==
  /\ [](/\ \A d \in HandlerDecisions : d.evaluationId \in ValidEvaluationIds
        /\ \A i \in 1..Len(published) : published[i].evaluationId \in ValidEvaluationIds
        /\ Len(outcome) <= Len(batch)
        /\ \A k \in 1..Len(outcome) :
             outcome[k] = "skipped" <=> ~IsValid(topic[batch[k]]))
  /\ [][(/\ cpc = "processing"
         /\ Len(outcome) < Len(batch)
         /\ outcome' # outcome
         /\ ~IsValid(topic[batch[Len(outcome) + 1]]))
        => /\ outcome' = Append(outcome, "skipped")
           /\ decisions' = decisions /\ published' = published
           /\ batch' = batch /\ cpc' = "processing"]_vars

\* A batch of two messages whose first is not JSON and whose second was
\* decided and published.
C39_Witness ==
  /\ Len(batch) = 2
  /\ outcome = <<"skipped", "ok">>
  /\ Len(published) = 1

\* ------------------------------------------------------------------------
\* Evaluator: risk scoring (EvaluationService.calculateRiskScore)
\* ------------------------------------------------------------------------

\* if (value): JavaScript truthiness
Truthy(x) ==
  CASE x.t = "bool" -> x.v
    [] x.t = "num" -> x.v # 0
    [] x.t = "str" -> x.v # ""
    [] x.t \in {"undef", "null"} -> FALSE
    [] OTHER -> TRUE

\* value[key] as getNestedValue reads it: also on a primitive, where a string
\* has a length and characters and any other primitive has no property.
NestedProperty(value, key) ==
  CASE value.t \in {"obj", "arr"} -> Property(value, key)
    [] value.t = "str" ->
         (CASE key = "length" -> Num(Len(CharsOf(value.v)) * Unit)
            [] key \in DOMAIN DigitVal /\ DigitVal[key] < Len(CharsOf(value.v))
                 -> Str(CharsOf(value.v)[DigitVal[key] + 1])
            [] OTHER -> Undef)
    [] OTHER -> Undef

RECURSIVE getNestedValue(_, _)
getNestedValue(value, keys) ==
  IF Len(keys) = 0 THEN value
  ELSE IF value.t \in {"null", "undef"} THEN Undef
  ELSE getNestedValue(NestedProperty(value, Head(keys)), Tail(keys))

evaluateCondition(event, condition) ==
  LET fieldValue == getNestedValue(event, condition.field)
      value == condition.value
      op == condition.operator
  IN CASE op = "eq" -> StrictEq(fieldValue, value)
       [] op = "neq" -> ~StrictEq(fieldValue, value)
       [] op = "gt" -> fieldValue.t = "num" /\ Greater(fieldValue.v, value)
       [] op = "gte" -> fieldValue.t = "num" /\ GreaterEq(fieldValue.v, value)
       [] op = "lt" -> fieldValue.t = "num" /\ Less(fieldValue.v, value)
       [] op = "lte" -> fieldValue.t = "num" /\ LessEq(fieldValue.v, value)
       [] op = "contains" ->
            fieldValue.t = "str" /\ SeqIncludes(CharsOf(fieldValue.v), ToChars(value))
       [] op = "not_contains" ->
            fieldValue.t = "str" /\ ~SeqIncludes(CharsOf(fieldValue.v), ToChars(value))
       [] op = "in" -> value.t = "arr" /\ ArrIncludes(value.v, fieldValue)
       [] op = "not_in" -> value.t = "arr" /\ ~ArrIncludes(value.v, fieldValue)
       [] OTHER -> FALSE

\* evaluateRule: all conditions must match.
evaluateRule(rule, event) ==
  \A i \in 1..Len(rule.conditions) : evaluateCondition(event, rule.conditions[i])

highRiskCountries == {"RU", "NG", "BR", "VN"}

\* DEFAULT_MERCHANT_SETTINGS
DefaultMerchantSettings ==
  [riskThreshold |-> 70 * Unit, enableCaptcha |-> TRUE,
   captchaThreshold |-> 80 * Unit, ipAnonymization |-> FALSE]

Term(add, tag) == [add |-> add, tag |-> tag]

\* 1. Device fingerprint confidence
ConfidenceTerms(event) ==
  LET confidence == Property(Property(event, "fingerprintData"), "confidence")
  IN IF confidence.t # "undef"
     THEN IF confidence.v < 30 THEN <<Term(30 * Unit, <<"low_device_confidence">>)>>
          ELSE IF confidence.v < 70 THEN <<Term(10 * Unit, <<"medium_device_confidence">>)>>
          ELSE <<>>
     ELSE <<>>

\* 2. Incognito mode
IncognitoTerms(event) ==
  IF Truthy(Property(Property(event, "fingerprintData"), "incognito"))
  THEN <<Term(15 * Unit, <<"incognito_mode">>)>>
  ELSE <<>>

\* 3. Location risk assessment
CountryTerms(event) ==
  LET country == Property(Property(event, "geoData"), "country")
  IN IF Truthy(country) /\ country.v \in highRiskCountries
     THEN <<Term(20 * Unit, <<"high_risk_country">>)>>
     ELSE <<>>

\* Variant of VelocityTerms: the counts are compared with >= instead of >.
VelocityTermsInclusive(event) ==
  LET velocityData == Property(event, "velocityData")
      sessionCount24h == Property(velocityData, "sessionCount24h")
      ipSessionCount24h == Property(velocityData, "ipSessionCount24h")
  IN IF Truthy(velocityData)
     THEN (IF Truthy(sessionCount24h) /\ sessionCount24h.v >= 10 * Unit
           THEN <<Term(25 * Unit, <<"high_session_velocity">>)>> ELSE <<>>)
          \o
          (IF Truthy(ipSessionCount24h) /\ ipSessionCount24h.v >= 20 * Unit
           THEN <<Term(30 * Unit, <<"high_ip_velocity">>)>> ELSE <<>>)
     ELSE <<>>

\* 4. Velocity checks
VelocityTerms(event) ==
  LET velocityData == Property(event, "velocityData")
      sessionCount24h == Property(velocityData, "sessionCount24h")
      ipSessionCount24h == Property(velocityData, "ipSessionCount24h")
  IN IF Truthy(velocityData)
     THEN (IF Truthy(sessionCount24h) /\ sessionCount24h.v > 10 * Unit
           THEN <<Term(25 * Unit, <<"high_session_velocity">>)>> ELSE <<>>)
          \o
          (IF Truthy(ipSessionCount24h) /\ ipSessionCount24h.v > 20 * Unit
           THEN <<Term(30 * Unit, <<"high_ip_velocity">>)>> ELSE <<>>)
     ELSE <<>>

\* 5. Apply merchant rules
RECURSIVE RuleTerms(_, _)
RuleTerms(rules, event) ==
  IF Len(rules) = 0 THEN <<>>
  ELSE (IF Head(rules).isActive /\ evaluateRule(Head(rules), event)
        THEN <<Term(Head(rules).riskScoreAdjustment, <<"rule_", Head(rules).id>>)>>
        ELSE <<>>) \o RuleTerms(Tail(rules), event)

ScoreTerms(event, rules) ==
  ConfidenceTerms(event) \o IncognitoTerms(event) \o CountryTerms(event)
    \o VelocityTerms(event) \o RuleTerms(rules, event)

RECURSIVE SumAdds(_)
SumAdds(terms) == IF Len(terms) = 0 THEN 0 ELSE Head(terms).add + SumAdds(Tail(terms))

Tags(terms) == [i \in 1..Len(terms) |-> terms[i].tag]

\* Variant of ClampScore: only the upper bound is applied.
ClampScoreUpperOnly(score) == IF score > 100 * Unit THEN 100 * Unit ELSE score

\* Math.max(0, Math.min(100, score))
ClampScore(score) ==
  LET upper == IF score > 100 * Unit THEN 100 * Unit ELSE score
  IN IF upper < 0 THEN 0 ELSE upper

\* The RiskScore built by the try block of calculateRiskScore.
ComputedRiskScore(event, merchantSettings, rules) ==
  LET terms == ScoreTerms(event, rules)
      score == ClampScore(SumAdds(terms))
  IN [id |-> "id1", evaluationId |-> "e1",
      sessionId |-> Property(event, "sessionId").v,
      merchantId |-> Property(event, "merchantId").v,
      visitorId |-> Property(Property(event, "fingerprintData"), "visitorId").v,
      score |-> score,
      isFraud |-> (score >= merchantSettings.riskThreshold),
      riskFactors |-> Tags(terms),
      timestamp |-> 0]

\* Variant of FallbackRiskScore: the fallback flags the event as fraud.
FallbackRiskScoreFailClosed(event) ==
  [id |-> "id1", evaluationId |-> "e1",
   sessionId |-> Property(event, "sessionId").v,
   merchantId |-> Property(event, "merchantId").v,
   visitorId |-> Property(Property(event, "fingerprintData"), "visitorId").v,
   score |-> 100 * Unit,
   isFraud |-> TRUE,
   riskFactors |-> << <<"calculation_error">> >>,
   timestamp |-> 0]

\* The safe fallback of the catch block.
FallbackRiskScore(event) ==
  [id |-> "id1", evaluationId |-> "e1",
   sessionId |-> Property(event, "sessionId").v,
   merchantId |-> Property(event, "merchantId").v,
   visitorId |-> Property(Property(event, "fingerprintData"), "visitorId").v,
   score |-> 0,
   isFraud |-> FALSE,
   riskFactors |-> << <<"calculation_error">> >>,
   timestamp |-> 0]

\* The enriched events: confidence absent or 0.2, 0.3, 0.7, 0.9; geoData
\* absent or with a country; velocityData {} or with its counts.
Confidences == {Undef, Num(20), Num(30), Num(70), Num(90)}
Countries == {"", "US", "RU"}
Velocities == {<<>>, <<10, 21>>, <<11, 20>>}

MakeEvent(confidence, incognito, country, velocity) ==
  LET fingerprintData ==
        IF confidence.t = "undef"
        THEN [visitorId |-> Str("v1"), incognito |-> Bool(incognito)]
        ELSE [visitorId |-> Str("v1"), incognito |-> Bool(incognito),
              confidence |-> confidence]
      velocityData ==
        IF velocity = <<>> THEN Obj(<<>>)
        ELSE Obj([sessionCount24h |-> Num(velocity[1] * Unit),
                  ipSessionCount24h |-> Num(velocity[2] * Unit),
                  deviceSessionCount24h |-> Num(Unit)])
  IN IF country = ""
     THEN Obj([sessionId |-> Str("s1"), merchantId |-> Str("m1"),
               ipAddress |-> Str("1"),
               fingerprintData |-> Obj(fingerprintData),
               velocityData |-> velocityData])
     ELSE Obj([sessionId |-> Str("s1"), merchantId |-> Str("m1"),
               ipAddress |-> Str("1"),
               fingerprintData |-> Obj(fingerprintData),
               geoData |-> Obj([country |-> Str(country)]),
               velocityData |-> velocityData])

Events ==
  {MakeEvent(c, i, g, v) : c \in Confidences, i \in BOOLEAN,
                           g \in Countries, v \in Velocities}

\* The conditions of the sample rules, and a rule without conditions.
EvalConditionLists ==
  { <<>>,
    <<Condition(<<"geoData", "country">>, "in",
                Arr(<<Str("RU"), Str("NG"), Str("BR"), Str("VN")>>))>>,
    <<Condition(<<"fingerprintData", "incognito">>, "eq", Bool(TRUE))>> }

Adjustments == {-50 * Unit, 50 * Unit}

EvalRulesAt(i) ==
  [id : {RuleName[i]}, conditions : EvalConditionLists,
   riskScoreAdjustment : Adjustments, isActive : BOOLEAN]

RECURSIVE EvalRuleLists(_)
EvalRuleLists(n) ==
  IF n = 0 THEN {<<>>}
  ELSE {Append(l, r) : l \in EvalRuleLists(n - 1), r \in EvalRulesAt(n)}

InitScore ==
  /\ ConditionIdle
  /\ CycleIdle
  /\ SdkIdle
  /\ EvaluateIdle
  /\ DecideIdle
  /\ DecisionerIdle
  /\ VelocityIdle
  /\ ConfigIdle
  /\ sevent \in Events
  /\ srules \in UNION {EvalRuleLists(n) : n \in 0..MaxEvalRules}
  /\ sbusUp \in BOOLEAN
  /\ sresult = <<>>
  /\ sproduced = <<>>

\* calculateRiskScore: the computed score is published and returned; when
\* the publish rejects, the catch block returns the fallback.
CalculateRiskScore ==
  /\ sresult = <<>>
  /\ LET riskScore == ComputedRiskScore(sevent, DefaultMerchantSettings, srules)
     IN IF sbusUp
        THEN sresult' = <<riskScore>> /\ sproduced' = <<riskScore>>
        ELSE sresult' = <<FallbackRiskScore(sevent)>> /\ sproduced' = <<>>
  /\ UNCHANGED <<sevent, srules, sbusUp, outsideScore>>

NextScore == CalculateRiskScore

SpecScore == InitScore /\ [][NextScore]_vars

\* ------------------------------------------------------------------------
\* Properties of calculateRiskScore
\* ------------------------------------------------------------------------

\* C7: every RiskScore returned or published has 0 <= score <= 100.
C7_ScoreClamped ==
  /\ \A i \in 1..Len(sresult) : sresult[i].score \in 0..(100 * Unit)
  /\ \A i \in 1..Len(sproduced) : sproduced[i].score \in 0..(100 * Unit)

\* A published score of 0 whose terms sum to less than 0.
C7_Witness ==
  /\ Len(sproduced) = 1
  /\ sproduced[1].score = 0
  /\ SumAdds(ScoreTerms(sevent, srules)) < 0

\* The sum and the tags the additive model prescribes for the event.
ModelConfidence ==
  LET c == Property(Property(sevent, "fingerprintData"), "confidence")
  IN IF c.t = "undef" THEN -1 ELSE c.v
ModelCountry == Property(Property(sevent, "geoData"), "country")
ModelSessionCount ==
  LET n == Property(Property(sevent, "velocityData"), "sessionCount24h")
  IN IF n.t = "undef" THEN 0 ELSE n.v
ModelIpCount ==
  LET n == Property(Property(sevent, "velocityData"), "ipSessionCount24h")
  IN IF n.t = "undef" THEN 0 ELSE n.v
ModelMatchingRules ==
  {i \in 1..Len(srules) : srules[i].isActive /\ evaluateRule(srules[i], sevent)}

RECURSIVE SumOver(_, _)
SumOver(S, f) ==
  IF S = {} THEN 0
  ELSE LET x == CHOOSE y \in S : TRUE IN f[x] + SumOver(S \ {x}, f)

AdditiveSum ==
  (IF ModelConfidence >= 0 /\ ModelConfidence < 30 THEN 30 * Unit
   ELSE IF ModelConfidence >= 30 /\ ModelConfidence < 70 THEN 10 * Unit ELSE 0)
  + (IF Property(Property(sevent, "fingerprintData"), "incognito") = Bool(TRUE)
     THEN 15 * Unit ELSE 0)
  + (IF ModelCountry.t = "str" /\ ModelCountry.v \in highRiskCountries
     THEN 20 * Unit ELSE 0)
  + (IF ModelSessionCount > 10 * Unit THEN 25 * Unit ELSE 0)
  + (IF ModelIpCount > 20 * Unit THEN 30 * Unit ELSE 0)
  + SumOver(ModelMatchingRules, [i \in 1..Len(srules) |-> srules[i].riskScoreAdjustment])

AdditiveTags ==
  (IF ModelConfidence >= 0 /\ ModelConfidence < 30 THEN {<<"low_device_confidence">>}
   ELSE IF ModelConfidence >= 30 /\ ModelConfidence < 70
   THEN {<<"medium_device_confidence">>} ELSE {})
  \cup (IF Property(Property(sevent, "fingerprintData"), "incognito") = Bool(TRUE)
        THEN {<<"incognito_mode">>} ELSE {})
  \cup (IF ModelCountry.t = "str" /\ ModelCountry.v \in highRiskCountries
        THEN {<<"high_risk_country">>} ELSE {})
  \cup (IF ModelSessionCount > 10 * Unit THEN {<<"high_session_velocity">>} ELSE {})
  \cup (IF ModelIpCount > 20 * Unit THEN {<<"high_ip_velocity">>} ELSE {})
  \cup {<<"rule_", srules[i].id>> : i \in ModelMatchingRules}

\* C8: when scoring does not fail, score is the sum, clamped to [0,100], of
\* +30 for confidence < 0.3, else +10 for 0.3 <= confidence < 0.7, +15 for
\* incognito, +20 for a high-risk country, +25 for a session count > 10, +30
\* for an IP count > 20 and the adjustment of each matching enabled rule;
\* riskFactors holds exactly the tags of the contributing terms.
C8_AdditiveModel ==
  \A i \in 1..Len(sproduced) :
    /\ sresult = sproduced
    /\ sproduced[i].score =
         (IF AdditiveSum > 100 * Unit THEN 100 * Unit
          ELSE IF AdditiveSum < 0 THEN 0 ELSE AdditiveSum)
    /\ {sproduced[i].riskFactors[k] : k \in 1..Len(sproduced[i].riskFactors)}
         = AdditiveTags
    /\ Len(sproduced[i].riskFactors) = Cardinality(AdditiveTags)

\* Confidence 0.3, a session count of 11, an IP count of 20 and a matching
\* rule: 10 + 25 + 50.
C8_Witness ==
  /\ Len(sproduced) = 1
  /\ ModelConfidence = 30
  /\ ModelSessionCount = 11 * Unit
  /\ ModelIpCount = 20 * Unit
  /\ ModelMatchingRules # {}
  /\ sproduced[1].score = 85 * Unit

C40_BusFailureKeepsScore ==
  \A i \in 1..Len(sresult) :
    LET computed == ComputedRiskScore(sevent, DefaultMerchantSettings, srules)
    IN /\ sresult[i].score = computed.score
       /\ sresult[i].isFraud = computed.isFraud
       /\ sresult[i].riskFactors = computed.riskFactors

\* ------------------------------------------------------------------------
\* Evaluator: velocity counters (EvaluationService.getVelocityData)
\* ------------------------------------------------------------------------
\* Counts and seconds are whole numbers here; the store holds them as
\* decimal strings, which INCR and parseInt read back unchanged.

Evals == 1..MaxEvals

ttl == 24 * 60 * 60

\* Date.now() at the start of the clock.
VelocityNow == 1

merchantSessionKey(event) == <<"velocity:merchant:", event.merchantId, ":sessions">>
ipSessionKey(event) == <<"velocity:ip:", event.ipAddress, ":sessions">>
deviceKey(event) == <<"velocity:device:", event.visitorId, ":sessions">>
lastSeenKey(event) == <<"velocity:device:", event.visitorId, ":lastSeen">>

\* The events of the evaluations: one IP address and one device, seen in
\* two sessions of one merchant and in a session of another.
VelocityEvents ==
  {[sessionId |-> "s1", merchantId |-> "m1", ipAddress |-> "1", visitorId |-> "v1"],
   [sessionId |-> "s2", merchantId |-> "m1", ipAddress |-> "1", visitorId |-> "v1"],
   [sessionId |-> "s1", merchantId |-> "m2", ipAddress |-> "1", visitorId |-> "v1"]}

\* The first evaluation is of session s1 of merchant m1, the second of a
\* session of the same merchant, the others of the other merchant.
EventsOf(p) ==
  {e \in VelocityEvents :
     CASE p = 1 -> e.merchantId = "m1" /\ e.sessionId = "s1"
       [] p = 2 -> e.merchantId = "m1"
       [] OTHER -> e.merchantId = "m2"}

VelocityKeys ==
  UNION {{merchantSessionKey(e), ipSessionKey(e), deviceKey(e), lastSeenKey(e)} :
           e \in VelocityEvents}

\* A key of the store: absent, or a number with the time it expires at
\* (0: no expiry). created is the time the key last came into being (-1:
\* never); it stays when the key is gone.
NoKey == [present |-> FALSE, value |-> 0, expire |-> 0, created |-> -1]

\* redis.incr(key): an absent key counts from 0 and gets no expiry.
Incr(store, clock, key) ==
  [store EXCEPT ![key] =
     [present |-> TRUE, value |-> store[key].value + 1,
      expire |-> store[key].expire,
      created |-> IF store[key].present THEN store[key].created ELSE clock]]

\* redis.setex(key, expireSeconds, value)
SetEx(store, clock, key, expireSeconds, value) ==
  [store EXCEPT ![key] =
     [present |-> TRUE, value |-> value, expire |-> clock + expireSeconds,
      created |-> IF store[key].present THEN store[key].created ELSE clock]]

\* The store at a later time: the keys whose expiry has passed are gone.
Expired(store, clock) ==
  [k \in DOMAIN store |->
     IF store[k].present /\ store[k].expire # 0 /\ store[k].expire <= clock
     THEN [present |-> FALSE, value |-> 0, expire |-> 0, created |-> store[k].created]
     ELSE store[k]]

NoLocals ==
  [sessionCount24h |-> 0, ipSessionCount24h |-> 0, deviceSessionCount24h |-> 0,
   lastSeenTimestamp |-> 0]

InitVelocity ==
  /\ ConditionIdle
  /\ CycleIdle
  /\ SdkIdle
  /\ EvaluateIdle
  /\ DecideIdle
  /\ DecisionerIdle
  /\ ScoreIdle
  /\ ConfigIdle
  /\ vevent \in [Evals -> VelocityEvents]
  /\ \A p \in Evals : vevent[p] \in EventsOf(p)
  /\ vclock = 0
  /\ vpc = [p \in Evals |-> "incrMerchant"]
  /\ vlocal = [p \in Evals |-> NoLocals]
  /\ vstore = [k \in VelocityKeys |-> NoKey]

\* const sessionCount24h = await incrRedisValue(merchantSessionKey)
IncrMerchant(p) ==
  /\ vpc[p] = "incrMerchant"
  /\ LET key == merchantSessionKey(vevent[p])
         store == Incr(vstore, vclock, key)
     IN /\ vstore' = store
        /\ vlocal' = [vlocal EXCEPT ![p].sessionCount24h = store[key].value]
        /\ vpc' = [vpc EXCEPT ![p] =
                     IF store[key].value = 1 THEN "setMerchant" ELSE "incrIp"]
  /\ UNCHANGED <<vevent, vclock, outsideVelocity>>

\* await setRedisValue(merchantSessionKey, '1', ttl)
SetMerchant(p) ==
  /\ vpc[p] = "setMerchant"
  /\ vstore' = SetEx(vstore, vclock, merchantSessionKey(vevent[p]), ttl, 1)
  /\ vpc' = [vpc EXCEPT ![p] = "incrIp"]
  /\ UNCHANGED <<vevent, vlocal, vclock, outsideVelocity>>

\* const ipSessionCount24h = await incrRedisValue(ipSessionKey)
IncrIp(p) ==
  /\ vpc[p] = "incrIp"
  /\ LET key == ipSessionKey(vevent[p])
         store == Incr(vstore, vclock, key)
     IN /\ vstore' = store
        /\ vlocal' = [vlocal EXCEPT ![p].ipSessionCount24h = store[key].value]
        /\ vpc' = [vpc EXCEPT ![p] =
                     IF store[key].value = 1 THEN "setIp" ELSE "incrDevice"]
  /\ UNCHANGED <<vevent, vclock, outsideVelocity>>

\* await setRedisValue(ipSessionKey, '1', ttl)
SetIp(p) ==
  /\ vpc[p] = "setIp"
  /\ vstore' = SetEx(vstore, vclock, ipSessionKey(vevent[p]), ttl, 1)
  /\ vpc' = [vpc EXCEPT ![p] = "incrDevice"]
  /\ UNCHANGED <<vevent, vlocal, vclock, outsideVelocity>>

\* const deviceSessionCount24h = await incrRedisValue(deviceKey)
IncrDevice(p) ==
  /\ vpc[p] = "incrDevice"
  /\ LET key == deviceKey(vevent[p])
         store == Incr(vstore, vclock, key)
     IN /\ vstore' = store
        /\ vlocal' = [vlocal EXCEPT ![p].deviceSessionCount24h = store[key].value]
        /\ vpc' = [vpc EXCEPT ![p] =
                     IF store[key].value = 1 THEN "setDevice" ELSE "getLastSeen"]
  /\ UNCHANGED <<vevent, vclock, outsideVelocity>>

\* await setRedisValue(deviceKey, '1', ttl)
SetDevice(p) ==
  /\ vpc[p] = "setDevice"
  /\ vstore' = SetEx(vstore, vclock, deviceKey(vevent[p]), ttl, 1)
  /\ vpc' = [vpc EXCEPT ![p] = "getLastSeen"]
  /\ UNCHANGED <<vevent, vlocal, vclock, outsideVelocity>>

\* const lastSeenStr = await getRedisValue(lastSeenKey)
GetLastSeen(p) ==
  /\ vpc[p] = "getLastSeen"
  /\ LET entry == vstore[lastSeenKey(vevent[p])]
     IN vlocal' = [vlocal EXCEPT ![p].lastSeenTimestamp =
                     IF entry.present THEN entry.value ELSE 0]
  /\ vpc' = [vpc EXCEPT ![p] = "setLastSeen"]
  /\ UNCHANGED <<vevent, vstore, vclock, outsideVelocity>>

\* await setRedisValue(lastSeenKey, Date.now().toString(), ttl), and the
\* return of the counts.
SetLastSeen(p) ==
  /\ vpc[p] = "setLastSeen"
  /\ vstore' = SetEx(vstore, vclock, lastSeenKey(vevent[p]), ttl, VelocityNow + vclock)
  /\ vpc' = [vpc EXCEPT ![p] = "returned"]
  /\ UNCHANGED <<vevent, vlocal, vclock, outsideVelocity>>

\* A store operation rejects: the catch block returns {}.
VelocityError(p) ==
  /\ vpc[p] \notin {"returned", "returnedEmpty"}
  /\ vpc' = [vpc EXCEPT ![p] = "returnedEmpty"]
  /\ UNCHANGED <<vevent, vlocal, vstore, vclock, outsideVelocity>>

NextVelocity ==
  \E p \in Evals :
    \/ IncrMerchant(p)
    \/ SetMerchant(p)
    \/ IncrIp(p)
    \/ SetIp(p)
    \/ IncrDevice(p)
    \/ SetDevice(p)
    \/ GetLastSeen(p)
    \/ SetLastSeen(p)
    \/ VelocityError(p)

SpecVelocity == InitVelocity /\ [][NextVelocity]_vars

\* The clock of the store moves on by 23h59m or by 24h01m while no
\* evaluation is between two of its store operations; the keys whose
\* expiry has passed are removed.
ClockSteps == {ttl - 60, ttl + 60}

MaxClock == MaxDays * (ttl + 60)

Tick(d) ==
  /\ \A p \in Evals : vpc[p] \in {"incrMerchant", "returned", "returnedEmpty"}
  /\ vclock + d <= MaxClock
  /\ vclock' = vclock + d
  /\ vstore' = Expired(vstore, vclock + d)
  /\ UNCHANGED <<vevent, vpc, vlocal, outsideVelocity>>

NextVelocityClock ==
  \/ NextVelocity
  \/ \E d \in ClockSteps : Tick(d)

SpecVelocityClock == InitVelocity /\ [][NextVelocityClock]_vars

\* ------------------------------------------------------------------------
\* Properties of getVelocityData
\* ------------------------------------------------------------------------

\* The evaluations whose increment of the key has been applied.
IncrementedBy(key) ==
  {p \in Evals :
     \/ merchantSessionKey(vevent[p]) = key /\ vlocal[p].sessionCount24h # 0
     \/ ipSessionKey(vevent[p]) = key /\ vlocal[p].ipSessionCount24h # 0
     \/ deviceKey(vevent[p]) = key /\ vlocal[p].deviceSessionCount24h # 0}

CounterKeys ==
  UNION {{merchantSessionKey(e), ipSessionKey(e), deviceKey(e)} : e \in VelocityEvents}

AllReturned == \A p \in Evals : vpc[p] \in {"returned", "returnedEmpty"}

\* C10: once the evaluations have returned, every velocity counter holds
\* the number of evaluations that incremented it, in any interleaving.
C10_NoLostIncrement ==
  AllReturned =>
    \A key \in CounterKeys : vstore[key].value = Cardinality(IncrementedBy(key))

\* C11: a velocity counter that came into being at time T is present until
\* T+23h59m and absent from T+24h01m on, whatever increments happen in
\* between.
C11_TtlFromFirstIncrement ==
  \A key \in CounterKeys :
    vstore[key].created >= 0 =>
      /\ (vclock <= vstore[key].created + ttl - 60 => vstore[key].present)
      /\ (vclock >= vstore[key].created + ttl + 60 => ~vstore[key].present)

\* C38: every velocity counter in the store carries an expiry once the
\* evaluations have returned, also those that returned from the catch
\* block between an increment and the write of its TTL.
C38_CounterKeysCarryExpiry ==
  AllReturned =>
    \A key \in CounterKeys : vstore[key].present => vstore[key].expire # 0

\* The evaluations of the session of evaluation p.
SameSession(p) ==
  {q \in Evals : /\ vevent[q].merchantId = vevent[p].merchantId
                 /\ vevent[q].sessionId = vevent[p].sessionId}

\* C12: the session count an evaluation reads counts the evaluations of its
\* own (merchantId, sessionId) pair only.
C12_SessionCounterOwnSession ==
  \A p \in Evals : vlocal[p].sessionCount24h <= Cardinality(SameSession(p))

\* ------------------------------------------------------------------------
\* Merchant configuration reads (DecisionService.getMerchantRules,
\* EvaluationService.getMerchantSettings)
\* ------------------------------------------------------------------------

\* await setRedisValue(cacheKey, settings, 300)
cacheTtl == 300

\* The merchants whose configuration is asked for.
RulesMerchants == {"m1", "merchant-123"}
SettingsMerchants == {"m1", "m2"}
SettingsKeys == {"m1", "m2", "default"}

\* A key of the evaluator's cache: absent, or settings with the time they
\* expire at (0: no expiry).
NoSettings == [present |-> FALSE, value |-> DefaultMerchantSettings, expire |-> 0]

\* Settings an operator has put into the cache for a merchant, and for the
\* default tenant.
CustomSettings ==
  [riskThreshold |-> 50 * Unit, enableCaptcha |-> FALSE,
   captchaThreshold |-> 60 * Unit, ipAnonymization |-> TRUE]
DefaultTenantSettings ==
  [riskThreshold |-> 60 * Unit, enableCaptcha |-> TRUE,
   captchaThreshold |-> 80 * Unit, ipAnonymization |-> FALSE]

ConfigRead(service, merchantId, own, default, failed, result) ==
  [service |-> service, merchantId |-> merchantId, own |-> own,
   default |-> default, failed |-> failed, at |-> cfgClock, result |-> result]

InitConfig ==
  /\ ConditionIdle
  /\ CycleIdle
  /\ SdkIdle
  /\ EvaluateIdle
  /\ DecideIdle
  /\ ScoreIdle
  /\ VelocityIdle
  /\ topic = <<>> /\ position = 0 /\ committed = 0
  /\ connected = FALSE /\ isRunning = FALSE /\ cpc = "stopped"
  /\ shutdown = FALSE /\ polled = "none"
  /\ batch = <<>> /\ outcome = <<>>
  /\ decisions = {} /\ published = <<>>
  /\ producerConnected = FALSE /\ uuid = 0 /\ now = 0
  /\ \E m1 \in M1Rules, d \in {Absent, DefaultMerchantRules} :
       rulesStore = [k \in MerchantKeys |->
                       IF k = "default" THEN d
                       ELSE IF k = "m1" THEN m1 ELSE Absent]
  /\ \E m1 \in {NoSettings, [present |-> TRUE, value |-> CustomSettings,
                              expire |-> cacheTtl]},
        d \in {NoSettings, [present |-> TRUE, value |-> DefaultTenantSettings,
                             expire |-> 0]} :
       settingsStore = [k \in SettingsKeys |->
                          IF k = "default" THEN d
                          ELSE IF k = "m1" THEN m1 ELSE NoSettings]
  /\ cfgRead = <<>>
  /\ cfgClock = 0

\* DecisionService.getMerchantRules(merchantId): nothing is stored.
DecisionerGetRules(merchantId) ==
  /\ cfgRead' = <<ConfigRead("decisioner", merchantId,
                             rulesStore[merchantId] # Absent,
                             rulesStore["default"] # Absent, FALSE,
                             getMerchantRules(rulesStore, merchantId))>>
  /\ UNCHANGED <<rulesStore, settingsStore, cfgClock, outsideConfig>>

\* EvaluationService.getMerchantSettings(merchantId): the cached settings,
\* or the defaults, which are cached for 5 minutes; the defaults when the
\* store rejects the read or the write.
EvaluatorGetSettings(merchantId, fail) ==
  LET cachedSettings == settingsStore[merchantId]
      default == settingsStore["default"].present
  IN /\ IF fail = "get"
        THEN /\ cfgRead' = <<ConfigRead("evaluator", merchantId, cachedSettings.present,
                                        default, TRUE, DefaultMerchantSettings)>>
             /\ UNCHANGED settingsStore
        ELSE IF cachedSettings.present
        THEN /\ cfgRead' = <<ConfigRead("evaluator", merchantId, TRUE, default, FALSE,
                                        cachedSettings.value)>>
             /\ UNCHANGED settingsStore
        ELSE IF fail = "set"
        THEN /\ cfgRead' = <<ConfigRead("evaluator", merchantId, FALSE, default, TRUE,
                                        DefaultMerchantSettings)>>
             /\ UNCHANGED settingsStore
        ELSE /\ cfgRead' = <<ConfigRead("evaluator", merchantId, FALSE, default, FALSE,
                                        DefaultMerchantSettings)>>
             /\ settingsStore' =
                  [settingsStore EXCEPT ![merchantId] =
                     [present |-> TRUE, value |-> DefaultMerchantSettings,
                      expire |-> cfgClock + cacheTtl]]
     /\ UNCHANGED <<rulesStore, cfgClock, outsideConfig>>

\* Five minutes pass: the settings whose expiry has passed are gone.  The
\* decisioner stores its rules without an expiry.
ConfigTick ==
  /\ cfgClock + cacheTtl <= MaxCacheTtls * cacheTtl
  /\ cfgClock' = cfgClock + cacheTtl
  /\ settingsStore' =
       [k \in SettingsKeys |->
          IF /\ settingsStore[k].present /\ settingsStore[k].expire # 0
             /\ settingsStore[k].expire <= cfgClock + cacheTtl
          THEN NoSettings ELSE settingsStore[k]]
  /\ UNCHANGED <<rulesStore, cfgRead, outsideConfig>>

NextConfig ==
  \/ \E merchantId \in RulesMerchants : DecisionerGetRules(merchantId)
  \/ \E merchantId \in SettingsMerchants, fail \in {"none", "get", "set"} :
       EvaluatorGetSettings(merchantId, fail)
  \/ ConfigTick

SpecConfig == InitConfig /\ [][NextConfig]_vars

\* ------------------------------------------------------------------------
\* Properties of the configuration reads
\* ------------------------------------------------------------------------

\* C18: a read that did not fail returns the merchant's own record when
\* there is one; else the thresholds of the default tenant's record when
\* there is one; else the baseline riskThreshold 70, highRiskThreshold 90,
\* automaticReject true.
C18_FallbackChain ==
  \A i \in 1..Len(cfgRead) :
    LET read == cfgRead[i]
        decisioner == read.service = "decisioner"
    IN ~read.failed =>
         IF read.own
         THEN read.result = (IF decisioner THEN rulesStore[read.merchantId]
                             ELSE settingsStore[read.merchantId].value)
                \/ cfgClock > read.at
         ELSE IF read.default
         THEN IF decisioner
              THEN /\ read.result.riskThreshold = rulesStore["default"].riskThreshold
                   /\ read.result.highRiskThreshold
                        = rulesStore["default"].highRiskThreshold
              ELSE read.result.riskThreshold
                     = settingsStore["default"].value.riskThreshold
         ELSE /\ read.result.riskThreshold = 70 * Unit
              /\ decisioner =>
                   /\ read.result.highRiskThreshold = 90 * Unit
                   /\ read.result.automaticReject

\* C19: after a read that missed the cache and did not fail, the cache
\* holds an entry under the merchant's key for 5 minutes from the read, and
\* no longer.
C19_WriteBackWithTtl ==
  \A i \in 1..Len(cfgRead) :
    LET read == cfgRead[i]
        cached == IF read.service = "decisioner"
                  THEN rulesStore[read.merchantId] # Absent
                  ELSE settingsStore[read.merchantId].present
    IN (~read.failed /\ ~read.own) => (cached <=> cfgClock < read.at + cacheTtl)

\* ------------------------------------------------------------------------
\* Evaluator: IP anonymization (anonymizeIp)
\* ------------------------------------------------------------------------
\* An IP address is the sequence of the characters of its text.

\* String.prototype.includes for one character
HasChar(chars, c) == \E i \in 1..Len(chars) : chars[i] = c

\* String.prototype.split(separator) for a one-character separator
RECURSIVE Split(_, _)
Split(chars, separator) ==
  IF ~HasChar(chars, separator) THEN <<chars>>
  ELSE LET i == CHOOSE i \in 1..Len(chars) :
                  /\ chars[i] = separator
                  /\ \A j \in 1..(i - 1) : chars[j] # separator
       IN <<SubSeq(chars, 1, i - 1)>> \o Split(SubSeq(chars, i + 1, Len(chars)), separator)

\* Array.prototype.join(separator)
RECURSIVE Join(_, _)
Join(parts, separator) ==
  IF Len(parts) = 0 THEN <<>>
  ELSE IF Len(parts) = 1 THEN parts[1]
  ELSE parts[1] \o <<separator>> \o Join(Tail(parts), separator)

\* Array.prototype.slice(0, end)
SliceFromStart(parts, end) == SubSeq(parts, 1, IF Len(parts) < end THEN Len(parts) ELSE end)

anonymizeIp(ipAddress) ==
  IF HasChar(ipAddress, ":")
  THEN LET parts == Split(ipAddress, ":")
           zeros == <<"0", "0", "0", "0">>
       IN Join(SliceFromStart(parts, 3) \o <<zeros, zeros, zeros, zeros, zeros>>, ":")
  ELSE LET parts == Split(ipAddress, ".")
       IN Join(SliceFromStart(parts, 3) \o << <<"0">> >>, ".")

\* The addresses of the requests: 1.1.1.1, 1.1.1.10, 1.1.2.1,
\* a:1:1:1:1:1:1:1, a:1:1::1, ::1 and a::
IpAddresses ==
  { <<"1", ".", "1", ".", "1", ".", "1">>,
    <<"1", ".", "1", ".", "1", ".", "1", "0">>,
    <<"1", ".", "1", ".", "2", ".", "1">>,
    <<"a", ":", "1", ":", "1", ":", "1", ":", "1", ":", "1", ":", "1", ":", "1">>,
    <<"a", ":", "1", ":", "1", ":", ":", "1">>,
    <<":", ":", "1">>,
    <<"a", ":", ":">> }

\* ------------------------------------------------------------------------
\* Evaluator: the synchronous evaluation (POST /evaluate, enrichData)
\* ------------------------------------------------------------------------

\* Two evaluations are followed.
Runs == {1, 2}

\* What can fail while the requests run: nothing; the producer is not
\* connected; the publish to risk_scores rejects; the cache read of the
\* settings, of the rules, or the velocity counters reject; the whole cache
\* rejects; the GeoIP reader throws.
Failures ==
  {"none", "producer", "scorePublish", "settings", "rules", "velocity", "cache", "geo"}

\* The country the GeoIP database has for an address: the network 1.1.1.0/24
\* is in a high-risk country, the other IPv4 addresses are not, and the
\* database has no record for the IPv6 addresses.
GeoCountry(ipAddress) ==
  IF HasChar(ipAddress, ":") THEN ""
  ELSE IF SliceFromStart(Split(ipAddress, "."), 3) = << <<"1">>, <<"1">>, <<"1">> >>
  THEN "RU"
  ELSE "US"

\* lookupIp(ipAddress): the country of the record of the database, none
\* ({}) when the reader throws or has no record.
lookupIp(ipAddress, fail) == IF fail = "geo" THEN "" ELSE GeoCountry(ipAddress)

\* The sample rules getMerchantRules returns when none are cached.
SampleRules ==
  << [id |-> "1",
      conditions |-> <<Condition(<<"geoData", "country">>, "in",
                                 Arr(<<Str("RU"), Str("NG"), Str("BR"), Str("VN")>>))>>,
      action |-> "flag", riskScoreAdjustment |-> 30 * Unit, isActive |-> TRUE],
     [id |-> "2",
      conditions |-> <<Condition(<<"fingerprintData", "incognito">>, "eq", Bool(TRUE))>>,
      action |-> "block", riskScoreAdjustment |-> 50 * Unit, isActive |-> TRUE] >>

\* EvaluationService.getMerchantSettings on the cache of the evaluations:
\* what it returns and the cache it leaves.
EvaluateGetSettings(cache, fail) ==
  IF fail \in {"settings", "cache"}
  THEN [result |-> DefaultMerchantSettings, cache |-> cache]
  ELSE IF cache.settings # <<>>
  THEN [result |-> cache.settings[1], cache |-> cache]
  ELSE [result |-> DefaultMerchantSettings,
        cache |-> [cache EXCEPT !.settings = <<DefaultMerchantSettings>>]]

\* EvaluationService.getMerchantRules on the cache of the evaluations.
EvaluateGetRules(cache, fail) ==
  IF fail \in {"rules", "cache"}
  THEN [result |-> <<>>, cache |-> cache]
  ELSE IF cache.rules # <<>>
  THEN [result |-> cache.rules[1], cache |-> cache]
  ELSE [result |-> SampleRules, cache |-> [cache EXCEPT !.rules = <<SampleRules>>]]

\* The counters getVelocityData increments for an event.
EvaluateCounterKeys(event) ==
  {merchantSessionKey(event), ipSessionKey(event), deviceKey(event)}

\* getVelocityData, run without another evaluation in between: the three
\* counters are incremented and their new values returned; {} when the
\* cache rejects.
EvaluateGetVelocityData(cache, event, fail) ==
  IF fail \in {"velocity", "cache"}
  THEN [result |-> <<>>, cache |-> cache, keys |-> {}]
  ELSE LET keys == EvaluateCounterKeys(event)
           counts == [k \in DOMAIN cache.counts |->
                        IF k \in keys THEN cache.counts[k] + 1 ELSE cache.counts[k]]
       IN [result |-> <<counts[merchantSessionKey(event)], counts[ipSessionKey(event)]>>,
           cache |-> [cache EXCEPT !.counts = counts],
           keys |-> keys]

\* Variant of enrichData: a failure of the GeoIP reader is not caught by
\* the lookup and ends the try block.
enrichDataGeoThrows(event, cache, fail) ==
  LET settings == EvaluateGetSettings(cache, fail)
      anonymized ==
        IF settings.result.ipAnonymization
        THEN [event EXCEPT !.anonymizedIp = <<anonymizeIp(event.ipAddress)>>]
        ELSE event
      geoData == lookupIp(event.ipAddress, fail)
      located == [anonymized EXCEPT !.geoData = <<geoData>>]
      velocityData == EvaluateGetVelocityData(settings.cache, located, fail)
  IN IF fail = "geo"
     THEN [event |-> anonymized, cache |-> settings.cache,
           lookedUp |-> event.ipAddress, counted |-> {}]
     ELSE [event |-> [located EXCEPT !.velocityData = <<velocityData.result>>],
           cache |-> velocityData.cache,
           lookedUp |-> event.ipAddress,
           counted |-> velocityData.keys]

\* enrichData(event): the enriched event, the cache it leaves, the address
\* given to the geo lookup and the counters incremented.
enrichData(event, cache, fail) ==
  LET settings == EvaluateGetSettings(cache, fail)
      anonymized ==
        IF settings.result.ipAnonymization
        THEN [event EXCEPT !.anonymizedIp = <<anonymizeIp(event.ipAddress)>>]
        ELSE event
      geoData == lookupIp(event.ipAddress, fail)
      located == [anonymized EXCEPT !.geoData = <<geoData>>]
      velocityData == EvaluateGetVelocityData(settings.cache, located, fail)
  IN [event |-> [located EXCEPT !.velocityData = <<velocityData.result>>],
      cache |-> velocityData.cache,
      lookedUp |-> event.ipAddress,
      counted |-> velocityData.keys]

\* The enriched event as calculateRiskScore reads it.
ScoredEvent(event) ==
  MakeEvent(Num(event.confidence), event.incognito,
            IF event.geoData = <<>> THEN "" ELSE event.geoData[1],
            IF event.velocityData = <<>> THEN <<>> ELSE event.velocityData[1])

\* The ids uuidv4() returns during evaluation p: the first to the route,
\* the next two to calculateRiskScore.
EvaluateUuids == << <<"u11", "u12", "u13">>, <<"u21", "u22", "u23">> >>

\* calculateRiskScore(event) on the cache of the evaluations.  The event
\* has no evaluationId, the schema of the payload has none: id and
\* evaluationId of the RiskScore are the two ids drawn.
EvaluateCalculateRiskScore(event, cache, fail, uuids) ==
  LET settings == EvaluateGetSettings(cache, fail)
      rules == EvaluateGetRules(settings.cache, fail)
      riskScore ==
        [ComputedRiskScore(ScoredEvent(event), settings.result, rules.result)
           EXCEPT !.id = uuids[1], !.evaluationId = uuids[2]]
      fallback ==
        [FallbackRiskScore(ScoredEvent(event))
           EXCEPT !.id = uuids[1], !.evaluationId = uuids[2]]
  IN IF fail = "scorePublish"
     THEN [riskScore |-> fallback, cache |-> rules.cache, produced |-> <<>>]
     ELSE [riskScore |-> riskScore, cache |-> rules.cache, produced |-> <<riskScore>>]

\* The payloads: confidence 0.2 or 0.5, incognito or not.
EvaluateConfidences == {20, 50}

EvaluateRequest(ipAddress, confidence, incognito) ==
  [sessionId |-> "s1", merchantId |-> "m1", visitorId |-> "v1",
   ipAddress |-> ipAddress, confidence |-> confidence, incognito |-> incognito,
   anonymizedIp |-> <<>>, geoData |-> <<>>, velocityData |-> <<>>]

EvaluateKeys ==
  UNION {EvaluateCounterKeys(EvaluateRequest(ip, 20, FALSE)) : ip \in IpAddresses}

\* The two requests carry the same payload from two addresses; the cache
\* holds the merchant's settings or none, no rules and no counts.
InitEvaluate ==
  /\ ConditionIdle
  /\ CycleIdle
  /\ SdkIdle
  /\ DecideIdle
  /\ DecisionerIdle
  /\ ScoreIdle
  /\ VelocityIdle
  /\ ConfigIdle
  /\ \E confidence \in EvaluateConfidences, incognito \in BOOLEAN :
       erequest \in {[p \in Runs |-> EvaluateRequest(ips[p], confidence, incognito)] :
                       ips \in [Runs -> IpAddresses]}
  /\ efail \in Failures
  /\ \E settings \in {<<>>, <<CustomSettings>>} :
       ecache = [settings |-> settings, rules |-> <<>>,
                 counts |-> [k \in EvaluateKeys |-> 0]]
  /\ ebus = [rawEvents |-> <<>>, riskScores |-> <<>>]
  /\ eresponse = [p \in Runs |-> <<>>]
  /\ edecided = <<>>

\* The handler of POST /evaluate for a payload that passes the schema.
Evaluate(p) ==
  /\ eresponse[p] = <<>>
  /\ IF efail = "producer"
     THEN /\ eresponse' = [eresponse EXCEPT ![p] =
                             <<[statusCode |-> 500, error |-> "Internal Server Error"]>>]
          /\ UNCHANGED <<ecache, ebus>>
     ELSE LET enriched == enrichData(erequest[p], ecache, efail)
              scored == EvaluateCalculateRiskScore(enriched.event, enriched.cache, efail,
                                                   Tail(EvaluateUuids[p]))
              score == scored.riskScore.score
          IN /\ eresponse' =
                  [eresponse EXCEPT ![p] =
                     <<[statusCode |-> 200,
                        riskScore |-> score,
                        isFraud |-> scored.riskScore.isFraud,
                        evaluationId |-> EvaluateUuids[p][1],
                        requiresCaptcha |-> (score >= 80 * Unit),
                        captchaSiteKey |-> (score >= 80 * Unit),
                        enrichedEvent |-> enriched.event,
                        lookedUp |-> enriched.lookedUp,
                        counted |-> enriched.counted]>>]
             /\ ecache' = scored.cache
             /\ ebus' = [rawEvents |-> Append(ebus.rawEvents,
                                              [run |-> p, payload |-> erequest[p]]),
                         riskScores |-> ebus.riskScores \o scored.produced]
  /\ UNCHANGED <<erequest, efail, edecided, outsideEvaluate>>

\* The text of a risk factor in the JSON of the message.
RiskFactorText(tag) ==
  IF Len(tag) = 1 THEN tag[1]
  ELSE IF tag[2] = "1" THEN "rule_1" ELSE "rule_2"

\* JSON.stringify(riskScore) as the message on risk_scores.
RiskScoreMessage(riskScore) ==
  [kind |-> "risk",
   rs |-> [riskScore EXCEPT
             !.riskFactors = [i \in 1..Len(riskScore.riskFactors) |->
                                RiskFactorText(riskScore.riskFactors[i])]]]

\* The rules the decisioner's cache may hold when the risk score of
\* merchant m1 arrives: the default record stored at startup; a record of
\* the merchant with riskThreshold 0.6 of 1, or 60 of 100, and no custom
\* rule.
PipelineThresholds == {<<60, 90>>, <<60 * Unit, 90 * Unit>>}

PipelineStores ==
  {[k \in MerchantKeys |-> IF k = "default" THEN DefaultMerchantRules ELSE Absent]}
    \cup
  {[k \in MerchantKeys |->
      IF k = "default" THEN DefaultMerchantRules
      ELSE IF k = "m1" THEN MakeMerchantRules("m1", thresholds, TRUE, <<>>)
      ELSE Absent] : thresholds \in PipelineThresholds}

\* The decisioner handles the next message of risk_scores: makeDecision.
DecideRiskScore ==
  /\ Len(edecided) < Len(ebus.riskScores)
  /\ \E store \in PipelineStores :
       LET riskScore == parseMessage(RiskScoreMessage(ebus.riskScores[Len(edecided) + 1]))
           merchantRules == getMerchantRules(store, riskScore.merchantId)
       IN edecided' =
            Append(edecided,
                   [own |-> store["m1"] # Absent,
                    riskThreshold |-> merchantRules.riskThreshold,
                    riskScore |-> riskScore,
                    decision |-> decide(riskScore, merchantRules,
                                        Len(edecided) + 1, Len(edecided) + 1)])
  /\ UNCHANGED <<erequest, efail, ecache, ebus, eresponse, outsideEvaluate>>

NextEvaluate ==
  \/ \E p \in Runs : Evaluate(p)
  \/ DecideRiskScore

SpecEvaluate == InitEvaluate /\ [][NextEvaluate]_vars

\* ------------------------------------------------------------------------
\* Properties of the synchronous evaluation
\* ------------------------------------------------------------------------

\* The evaluations that were answered with a result.
Answered == {p \in Runs : eresponse[p] # <<>> /\ eresponse[p][1].statusCode = 200}

\* The settings configured for the merchant.
ConfiguredSettings ==
  IF ecache.settings = <<>> THEN DefaultMerchantSettings ELSE ecache.settings[1]

\* C21: the result's requiresCaptcha is true exactly when the score is at
\* least the captcha threshold configured for the merchant.
C21_CaptchaByMerchantThreshold ==
  \A p \in Answered :
    eresponse[p][1].requiresCaptcha
      <=> eresponse[p][1].riskScore >= ConfiguredSettings.captchaThreshold

\* C31: a publish while the producer is not connected is accepted and
\* queued: the raw event of every request handled is on its way to
\* raw_events.
C31_PublishQueuedWhenNotReady ==
  \A p \in Runs :
    eresponse[p] # <<>> => \E i \in 1..Len(ebus.rawEvents) : ebus.rawEvents[i].run = p

\* C35: the evaluationId answered to the caller is the evaluationId of the
\* RiskScore published for the request.
C35_SameEvaluationId ==
  \A p \in Answered :
    \A i \in 1..Len(ebus.riskScores) :
      ebus.riskScores[i].id = EvaluateUuids[p][2]
        => ebus.riskScores[i].evaluationId = eresponse[p][1].evaluationId

\* The evaluations of scenario B: confidence 0.2, incognito, a high-risk
\* country; the counts of two evaluations raise no velocity flag.
ScenarioB ==
  {p \in Answered : /\ erequest[p].confidence = 20
                    /\ erequest[p].incognito
                    /\ GeoCountry(erequest[p].ipAddress) \in highRiskCountries}

\* C22: an evaluation of scenario B is scored 65; the decision for it is
\* approve under the default riskThreshold and review under a
\* riskThreshold of 60.
C22_ScenarioB ==
  /\ \A p \in ScenarioB : eresponse[p][1].riskScore = 65 * Unit
  /\ \A i \in 1..Len(edecided) :
       (/\ edecided[i].riskScore.score = 65 * Unit
        /\ edecided[i].riskScore.riskFactors
             = <<"low_device_confidence", "incognito_mode", "high_risk_country">>)
       => /\ ~edecided[i].own => edecided[i].decision.decision = "approve"
          /\ edecided[i].riskThreshold \in {60, 60 * Unit}
               => edecided[i].decision.decision = "review"

\* Both addresses are IPv4 and differ in the last octet only.
DifferInLastOctet(a, b) ==
  /\ ~HasChar(a, ":") /\ ~HasChar(b, ":")
  /\ a # b
  /\ SliceFromStart(Split(a, "."), 3) = SliceFromStart(Split(b, "."), 3)

\* C23: an anonymized address is added only when the merchant's
\* ipAnonymization is set; and then two evaluations whose addresses differ
\* in the anonymized part only have the same addresses in the enriched
\* event, the same geo lookup input and the same velocity counters.
C23_OriginalIpNotUsed ==
  /\ \A p \in Answered :
       eresponse[p][1].enrichedEvent.anonymizedIp # <<>>
         => ConfiguredSettings.ipAnonymization
  /\ \A p, q \in Answered :
       (/\ eresponse[p][1].enrichedEvent.anonymizedIp # <<>>
        /\ eresponse[q][1].enrichedEvent.anonymizedIp # <<>>
        /\ DifferInLastOctet(erequest[p].ipAddress, erequest[q].ipAddress))
       => /\ eresponse[p][1].enrichedEvent.ipAddress
               = eresponse[q][1].enrichedEvent.ipAddress
          /\ eresponse[p][1].enrichedEvent.anonymizedIp
               = eresponse[q][1].enrichedEvent.anonymizedIp
          /\ eresponse[p][1].lookedUp = eresponse[q][1].lookedUp
          /\ eresponse[p][1].counted = eresponse[q][1].counted

\* The value of a run of hexadecimal digits.
HexVal ==
  DigitVal @@ ("a" :> 10) @@ ("b" :> 11) @@ ("c" :> 12) @@ ("d" :> 13)
    @@ ("e" :> 14) @@ ("f" :> 15)

RECURSIVE HexValue(_)
HexValue(cs) ==
  IF Len(cs) = 0 THEN 0
  ELSE HexValue(SubSeq(cs, 1, Len(cs) - 1)) * 16 + HexVal[cs[Len(cs)]]

\* The four octets of the text of an IPv4 address.
OctetsOf(text) ==
  LET parts == Split(text, ".")
  IN [i \in 1..Len(parts) |-> DigitsValue(parts[i])]

\* The eight 16-bit groups of the text of an IPv6 address, where "::"
\* stands for the run of zero groups that makes them eight; <<>> when the
\* text is not an address.
GroupsOf(text) ==
  LET parts == Split(text, ":")
      empty == {i \in 1..Len(parts) : parts[i] = <<>>}
  IN IF empty = {}
     THEN IF Len(parts) = 8 THEN [i \in 1..8 |-> HexValue(parts[i])] ELSE <<>>
     ELSE LET first == CHOOSE i \in empty : \A j \in empty : i <= j
              last == CHOOSE i \in empty : \A j \in empty : j <= i
              left == SubSeq(parts, 1, first - 1)
              right == SubSeq(parts, last + 1, Len(parts))
              gap == 8 - Len(left) - Len(right)
          IN IF gap < 1 THEN <<>>
             ELSE [i \in 1..Len(left) |-> HexValue(left[i])]
                    \o [i \in 1..gap |-> 0]
                    \o [i \in 1..Len(right) |-> HexValue(right[i])]

\* C24: the anonymized form of an IPv4 address a.b.c.d is a.b.c.0; the
\* anonymized form of an IPv6 address, in any textual form, is the address
\* with the same first three groups and five zero groups; anonymizing the
\* anonymized form changes nothing.
C24_AnonymizeIp ==
  \A p \in Answered :
    LET ipAddress == erequest[p].ipAddress
        anonymizedIp == eresponse[p][1].enrichedEvent.anonymizedIp
    IN anonymizedIp # <<>> =>
         /\ anonymizeIp(anonymizedIp[1]) = anonymizedIp[1]
         /\ IF HasChar(ipAddress, ":")
            THEN GroupsOf(anonymizedIp[1])
                   = SubSeq(GroupsOf(ipAddress), 1, 3) \o <<0, 0, 0, 0, 0>>
            ELSE OctetsOf(anonymizedIp[1])
                   = SubSeq(OctetsOf(ipAddress), 1, 3) \o <<0>>

C30_AlwaysAResult ==
  \A p \in Runs : eresponse[p] # <<>> => eresponse[p][1].statusCode = 200

\* ------------------------------------------------------------------------
\* Condition evaluation of both services (DecisionService.matchesCondition,
\* EvaluationService.evaluateRule)
\* ------------------------------------------------------------------------

Operators ==
  {"eq", "neq", "gt", "gte", "lt", "lte", "contains", "not_contains", "in", "not_in"}

\* The condition values: 50, '50', true, null, ['RU'], 'risk', and a
\* condition without a value.
ConditionValues ==
  {Num(50 * Unit), Str("50"), Bool(TRUE), JsNull, Arr(<<Str("RU")>>), Str("risk"), Undef}

\* The risk score the decisioner's conditions are evaluated on, and the
\* event the evaluator's conditions are evaluated on.
ConditionRiskScore == MakeRiskScore("e1", "m1", 60 * Unit, <<"high_risk_country">>)
ConditionEvent == MakeEvent(Num(20), TRUE, "RU", <<10, 21>>)

\* The dot paths: to a number, a string and an array or object, to a
\* missing property, below a missing property, and below a number.
ConditionFields ==
  [decisioner |-> {<<"score">>, <<"merchantId">>, <<"riskFactors">>, <<"metadata">>,
                   <<"metadata", "country">>, <<"score", "value">>},
   evaluator |-> {<<"fingerprintData", "confidence">>, <<"geoData", "country">>,
                  <<"velocityData">>, <<"geoData", "city">>,
                  <<"deviceData", "os">>, <<"fingerprintData", "confidence", "value">>}]

\* The value the service reads at the path.
FieldValueOf(condition) ==
  IF condition.service = "decisioner"
  THEN getFieldValue(ConditionRiskScore, condition.field)
  ELSE getNestedValue(ConditionEvent, condition.field)

InitCondition ==
  /\ DecideIdle
  /\ DecisionerIdle
  /\ ScoreIdle
  /\ VelocityIdle
  /\ ConfigIdle
  /\ EvaluateIdle
  /\ CycleIdle
  /\ SdkIdle
  /\ \E service \in {"decisioner", "evaluator"} :
       ccondition \in [service : {service}, field : ConditionFields[service],
                       operator : Operators, value : ConditionValues]
  /\ cresult = <<>>

\* One condition is evaluated by its service.
EvaluateCondition ==
  /\ cresult = <<>>
  /\ cresult' = <<IF ccondition.service = "decisioner"
                  THEN matchesCondition(ConditionRiskScore, ccondition)
                  ELSE evaluateCondition(ConditionEvent, ccondition)>>
  /\ UNCHANGED <<ccondition, outsideCondition>>

NextCondition == EvaluateCondition

SpecCondition == InitCondition /\ [][NextCondition]_vars

\* C26: on a field whose path resolves to undefined, a condition is false
\* for eq, neq, gt, gte, lt, lte, contains and in, and true for
\* not_contains and not_in, whatever its value.
C26_UndefinedField ==
  (cresult # <<>> /\ FieldValueOf(ccondition).t = "undef")
    => (cresult[1] <=> ccondition.operator \in {"not_contains", "not_in"})

\* C27: gt, gte, lt and lte are false when the field value or the
\* condition value is not a number.
C27_NumericOnly ==
  (/\ cresult # <<>>
   /\ ccondition.operator \in {"gt", "gte", "lt", "lte"}
   /\ (FieldValueOf(ccondition).t # "num" \/ ccondition.value.t # "num"))
    => ~cresult[1]

\* C37: the two services' condition evaluators are the same function: on
\* the same record, a condition the decisioner evaluated has the result
\* the evaluator's evaluateRule callback gives it.
C37_SameConditionFunction ==
  (cresult # <<>> /\ ccondition.service = "decisioner")
    => (cresult[1] <=> evaluateCondition(RiskScoreObject(ConditionRiskScore), ccondition))

\* ------------------------------------------------------------------------
\* Decisioner: the poll cycles of one consumer instance
\* (EventConsumer.startPolling, stopPolling, poll)
\* ------------------------------------------------------------------------
\* A poll cycle is one chain of poll() calls: a consume request, its
\* callback, the processing of the batch, the timer the callback sets, and
\* the poll() the timer calls.  The client emits 'ready' and 'disconnected'
\* in turn.

MaxCycles == 3

Cycles == 1..MaxCycles

\* What the consume callback receives.
Consumed == {"error", "empty", "batch"}

InitCycle ==
  /\ DecideIdle
  /\ DecisionerIdle
  /\ ScoreIdle
  /\ VelocityIdle
  /\ ConfigIdle
  /\ EvaluateIdle
  /\ ConditionIdle
  /\ SdkIdle
  /\ pconnected = FALSE
  /\ pisRunning = FALSE
  /\ ppollInterval = 0
  /\ pcycle = [c \in Cycles |-> "none"]

\* stopPolling(): clearTimeout cancels the timer this.pollInterval holds,
\* if that timer has not fired yet; the cycle of a cancelled timer ends.
stopPolling(cycle, pollInterval) ==
  [c \in Cycles |->
     IF c = pollInterval /\ cycle[c] = "timer" THEN "none" ELSE cycle[c]]

\* consumer.on('ready'): startPolling() sets isRunning and calls poll(),
\* which issues a consume request: a new cycle, whatever the others do.
CycleReady ==
  /\ ~pconnected
  /\ \E c \in Cycles :
       /\ pcycle[c] = "none"
       /\ \A b \in Cycles : b < c => pcycle[b] # "none"
       /\ pcycle' = [pcycle EXCEPT ![c] = "consuming"]
  /\ pconnected' = TRUE
  /\ pisRunning' = TRUE
  /\ UNCHANGED <<ppollInterval, outsideCycle>>

\* consumer.on('disconnected'): stopPolling().
CycleDisconnected ==
  /\ pconnected
  /\ pconnected' = FALSE
  /\ pisRunning' = FALSE
  /\ pcycle' = stopPolling(pcycle, ppollInterval)
  /\ ppollInterval' = 0
  /\ UNCHANGED outsideCycle

\* The consume callback of a cycle: on an error or an empty poll it sets
\* the timer of the next poll, isRunning or not; a batch is processed
\* first.
CycleConsumed(c, got) ==
  /\ pcycle[c] = "consuming"
  /\ IF got = "batch"
     THEN /\ pcycle' = [pcycle EXCEPT ![c] = "processing"]
          /\ UNCHANGED ppollInterval
     ELSE /\ pcycle' = [pcycle EXCEPT ![c] = "timer"]
          /\ ppollInterval' = c
  /\ UNCHANGED <<pconnected, pisRunning, outsideCycle>>

\* processMessages has returned: commit, then the timer of the next poll.
CycleProcessed(c) ==
  /\ pcycle[c] = "processing"
  /\ pcycle' = [pcycle EXCEPT ![c] = "timer"]
  /\ ppollInterval' = c
  /\ UNCHANGED <<pconnected, pisRunning, outsideCycle>>

\* The timer of a cycle fires: poll() returns when isRunning is false, and
\* issues the next consume request otherwise.
CycleTimerFires(c) ==
  /\ pcycle[c] = "timer"
  /\ pcycle' = [pcycle EXCEPT ![c] = IF pisRunning THEN "consuming" ELSE "none"]
  /\ UNCHANGED <<pconnected, pisRunning, ppollInterval, outsideCycle>>

NextCycle ==
  \/ CycleReady
  \/ CycleDisconnected
  \/ \E c \in Cycles :
       \/ \E got \in Consumed : CycleConsumed(c, got)
       \/ CycleProcessed(c)
       \/ CycleTimerFires(c)

SpecCycle == InitCycle /\ [][NextCycle]_vars

\* C36: at most one poll cycle is active: at most one consume request is
\* outstanding or batch being processed, and at most one poll timer is
\* pending.
C36_OnePollCycle ==
  /\ Cardinality({c \in Cycles : pcycle[c] \in {"consuming", "processing"}}) <= 1
  /\ Cardinality({c \in Cycles : pcycle[c] = "timer"}) <= 1

\* ------------------------------------------------------------------------
\* SDK: FraudShield.evaluate
\* ------------------------------------------------------------------------

\* The configurations of the instance: testMode, simulateRiskScore
\* (undefined or 85), enableCaptcha, and the onEvaluation callback, which is
\* absent, returns, or throws.
SdkConfigs ==
  [testMode : BOOLEAN, simulateRiskScore : {Undef, Num(85 * Unit)},
   enableCaptcha : BOOLEAN, onEvaluation : {"none", "returns", "throws"}]

\* The results the API answers with.
ApiResults ==
  [riskScore : {10 * Unit, 85 * Unit}, isFraud : {FALSE},
   evaluationId : {"e1"}, requiresCaptcha : BOOLEAN,
   captchaSiteKey : {"", "site-key"}]

\* What becomes of a request: the timeout wins the race, fetch rejects, the
\* status is not ok, or the status is ok; and the JSON body, null or a
\* result.
Outcomes == {"timeout", "rejected", "notOk", "ok"}
Bodies == {<<>>} \cup {<<result>> : result \in ApiResults}

\* ApiClient.request: never rejects.
request(fetched, body) ==
  CASE fetched \in {"timeout", "rejected"} -> [error |-> "network_error", data |-> <<>>]
    [] fetched = "notOk" -> [error |-> "status", data |-> <<>>]
    [] OTHER -> [error |-> "", data |-> body]

getFallbackEvaluationResult ==
  [riskScore |-> 0, isFraud |-> FALSE, evaluationId |-> "fallback",
   requiresCaptcha |-> FALSE, captchaSiteKey |-> ""]

\* getSimulatedEvaluationResult, without simulateFraud and captchaThreshold.
getSimulatedEvaluationResult(config) ==
  [riskScore |-> config.simulateRiskScore.v,
   isFraud |-> config.simulateRiskScore.v >= 80 * Unit,
   evaluationId |-> "test",
   requiresCaptcha |-> config.simulateRiskScore.v >= 80 * Unit,
   captchaSiteKey |-> "10000000-ffff-ffff-ffff-000000000001"]

\* The end of evaluate(): the onEvaluation callback, then return result;
\* a callback that throws lands in the catch block.
Resolved(config, result) ==
  IF config.onEvaluation = "throws" THEN getFallbackEvaluationResult ELSE result

InitSdk ==
  /\ DecideIdle
  /\ DecisionerIdle
  /\ ScoreIdle
  /\ VelocityIdle
  /\ ConfigIdle
  /\ EvaluateIdle
  /\ ConditionIdle
  /\ CycleIdle
  /\ kconfig \in SdkConfigs
  /\ kpc = "start"
  /\ kserver = <<>>
  /\ kresult = <<>>

\* evaluate() up to the request: the simulated result in test mode, else
\* the payload is posted to /evaluate.
SdkEvaluate ==
  /\ kpc = "start"
  /\ IF kconfig.testMode /\ kconfig.simulateRiskScore.t # "undef"
     THEN /\ kresult' = <<getSimulatedEvaluationResult(kconfig)>>
          /\ kpc' = "done"
     ELSE /\ kpc' = "post"
          /\ UNCHANGED kresult
  /\ UNCHANGED <<kconfig, kserver, outsideSdk>>

\* The post to /evaluate resolves: the fallback on an error or without data;
\* the CAPTCHA challenge is shown when the result asks for it; else the
\* result is returned.
SdkPostResolves(fetched, body) ==
  /\ kpc = "post"
  /\ LET response == request(fetched, body)
     IN IF response.error # "" \/ response.data = <<>>
        THEN /\ kresult' = <<getFallbackEvaluationResult>>
             /\ kpc' = "done"
             /\ UNCHANGED kserver
        ELSE LET result == response.data[1]
             IN IF /\ result.requiresCaptcha
                   /\ kconfig.enableCaptcha
                   /\ result.captchaSiteKey # ""
                THEN /\ kserver' = <<result>>
                     /\ kpc' = "captcha"
                     /\ UNCHANGED kresult
                ELSE /\ kresult' = <<Resolved(kconfig, result)>>
                     /\ kpc' = "done"
                     /\ UNCHANGED kserver
  /\ UNCHANGED <<kconfig, outsideSdk>>

\* showCaptchaChallenge: the user completes the challenge (callback); the
\* token is posted to /evaluate/captcha.
SdkCaptchaCompleted ==
  /\ kpc = "captcha"
  /\ kpc' = "captchaPost"
  /\ UNCHANGED <<kconfig, kserver, kresult, outsideSdk>>

\* showCaptchaChallenge: the widget reports an error (error-callback) or
\* the script does not load: evaluate() goes on with the first result.
SdkCaptchaFailed ==
  /\ kpc = "captcha"
  /\ kresult' = <<Resolved(kconfig, kserver[1])>>
  /\ kpc' = "done"
  /\ UNCHANGED <<kconfig, kserver, outsideSdk>>

\* The post to /evaluate/captcha resolves: its data when it has some, else
\* the first result.
SdkCaptchaPostResolves(fetched, body) ==
  /\ kpc = "captchaPost"
  /\ LET response == request(fetched, body)
     IN kresult' = <<Resolved(kconfig, IF response.data # <<>>
                                       THEN response.data[1] ELSE kserver[1])>>
  /\ kpc' = "done"
  /\ UNCHANGED <<kconfig, kserver, outsideSdk>>

NextSdk ==
  \/ SdkEvaluate
  \/ \E fetched \in Outcomes, body \in Bodies : SdkPostResolves(fetched, body)
  \/ SdkCaptchaCompleted
  \/ SdkCaptchaFailed
  \/ \E fetched \in Outcomes, body \in Bodies : SdkCaptchaPostResolves(fetched, body)

SpecSdk == InitSdk /\ [][NextSdk]_vars

\* The steps of evaluate() itself are taken, and every request resolves,
\* by its timeout at the latest.  Nothing makes the user complete the
\* challenge or the widget report an error.
SpecSdkFair ==
  /\ SpecSdk
  /\ WF_vars(SdkEvaluate)
  /\ WF_vars(\E fetched \in Outcomes, body \in Bodies : SdkPostResolves(fetched, body))
  /\ WF_vars(\E fetched \in Outcomes, body \in Bodies :
               SdkCaptchaPostResolves(fetched, body))

\* C34: on every path evaluate() eventually resolves with a result.
C34_EvaluateResolves == <>(kpc = "done")

====
